---- MODULE Spec2Model ----
(***************************************************************************)
(* Model of the log-structured engine of kv-rs (src/src/engines/kv.rs):   *)
(* an append-only log of JSON records, an in-memory map key -> offset      *)
(* shared by the clones of a handle, and the compaction routine.           *)
(*                                                                         *)
(* Files are sequences of records; every record has the byte length of     *)
(* its JSON line, and offsets are byte offsets computed from these         *)
(* lengths, so that a wrong offset is read back as a corrupt line.         *)
(*                                                                         *)
(* The shared-queue thread pool (src/src/thread_pool/shared_queue.rs) and  *)
(* the accept loop of the server (src/src/server.rs) have their own        *)
(* variables and specifications.                                           *)
(***************************************************************************)
EXTENDS Integers, Sequences, FiniteSets, TLC

\* ------------------------------------------------------------ bounds
\* Longest log the model writes (records appended since the directory is fresh).
MaxLog == 3
\* Number of compaction runs started.
MaxCompact == 1
\* Workers of the shared-queue pool (the argument of SharedQueueThreadPool::new).
NumWorkers == 2
\* Jobs handed to spawn.
MaxJobs == 3
\* Connections made to the server.
MaxConn == 2

\* The threads of the model; each owns one clone of the handle.
Threads == {1, 2}
Keys == {"a", "bb"}
Values == {"x", "yy"}

\* ------------------------------------------------------------ records
\* Bytes of a string of the model.
StrLen(s) == CASE s = "a" -> 1 [] s = "x" -> 1 [] s = "bb" -> 2 [] s = "yy" -> 2 [] s = "" -> 0

\* Bytes of {"cmd":"Set","key":"","value":""}\n and of the Remove form.
SetFrameLen == 34
RemoveFrameLen == 37

Record(cmd, key, value) == [cmd |-> cmd, key |-> key, value |-> value]

\* Length in bytes of the line serde_json::to_string(&record) + "\n".
RecLen(r) ==
    (IF r.cmd = "Set" THEN SetFrameLen ELSE RemoveFrameLen) + StrLen(r.key) + StrLen(r.value)

\* A line that does not parse as a Record (a partial line, or the empty line at EOF).
Corrupt == [cmd |-> "Corrupt", key |-> "", value |-> ""]

RECURSIVE FileSize(_)
FileSize(f) == IF f = <<>> THEN 0 ELSE RecLen(Head(f)) + FileSize(Tail(f))

\* Byte offset at which the i-th record of file f starts.
Offset(f, i) == FileSize(SubSeq(f, 1, i - 1))

\* seek(Start(p)); read_line(); serde_json::from_str: the record whose line starts
\* at byte p, Corrupt when p is inside a line or at/after the end of the file.
ReadRecordAt(f, p) ==
    IF \E i \in 1..Len(f) : Offset(f, i) = p
    THEN f[CHOOSE i \in 1..Len(f) : Offset(f, i) = p]
    ELSE Corrupt

\* ------------------------------------------------------------ the map
NoPos == -1
EmptyMap == [k \in Keys |-> NoPos]
ContainsKey(m, k) == m[k] # NoPos
MapInsert(m, k, p) == [m EXCEPT ![k] = p]
MapRemove(m, k) == [m EXCEPT ![k] = NoPos]
KeySet(m) == {k \in Keys : ContainsKey(m, k)}

\* ------------------------------------------------------------ the writer
\* BufWriterWithPos::write on a file opened in append mode: the bytes go to the end
\* of the file and the position read back with seek(Current(0)) is the new size.
PosAfterWriteStale(size, oldpos, n) == oldpos + n
PosAfterWrite(size, oldpos, n) == size + n

\* set: let pos = guard.pos - n
StartOffsetNoSub(pos, n) == pos
StartOffset(pos, n) == pos - n

\* ------------------------------------------------------------ open: replay
\* The loop of KvStore::open over the records of the log: pos is the running offset.
RECURSIVE Replay(_, _, _)
ReplayKeepRemoved(f, pos, m) ==
    IF f = <<>> THEN m
    ELSE LET r == Head(f) IN
         Replay(Tail(f), pos + RecLen(r),
                IF r.cmd = "Set" THEN MapInsert(m, r.key, pos) ELSE m)
Replay(f, pos, m) ==
    IF f = <<>> THEN m
    ELSE LET r == Head(f) IN
         Replay(Tail(f), pos + RecLen(r),
                IF r.cmd = "Remove" THEN MapRemove(m, r.key) ELSE MapInsert(m, r.key, pos))

\* ------------------------------------------------------------ LSM: keys and files
\* Levels of the LSM tree (NUM_LEVELS).
NumLevels == 4
\* User keys, in their byte order.
MaxUserKey == 3
\* Sequence numbers.
MaxSeq == 2
\* Table files (file numbers).
MaxFiles == 3
\* Entries of the memtable.
MaxMem == 3
\* Entries above which the memtable counts as full (compact_memtable_threshold).
MemThreshold == 1

Levels == 0..(NumLevels - 1)
UserKeys == 1..MaxUserKey
Seqs == 1..MaxSeq
FileNums == 1..MaxFiles

\* struct InternalKey: a user key and a sequence number.
IKey(uk, seq) == [uk |-> uk, seq |-> seq]
IKeys == {IKey(uk, seq) : uk \in UserKeys, seq \in Seqs}

\* PartialOrd for InternalKey: user_key ascending, then sequence_num descending.
KeyLess(a, b) == a.uk < b.uk \/ (a.uk = b.uk /\ a.seq > b.seq)
KeyLeq(a, b) == KeyLess(a, b) \/ (a.uk = b.uk /\ a.seq = b.seq)

\* struct FileMetaData.
FileMeta(num, size, smallest, largest) ==
    [num |-> num, size |-> size, smallest |-> smallest, largest |-> largest]

\* FileMetaData::cmp_by_smallest: by smallest_key, then by file number.
FileLess(f, g) ==
    IF f.smallest = g.smallest THEN f.num < g.num ELSE KeyLess(f.smallest, g.smallest)

\* The elements of a set of files in the order of FileLess, as a BTreeSet of
\* FileMetaData iterates them.
RECURSIVE SortFiles(_)
SortFiles(fs) ==
    IF fs = {} THEN <<>>
    ELSE LET f == CHOOSE x \in fs : \A y \in fs \ {x} : FileLess(x, y)
         IN <<f>> \o SortFiles(fs \ {f})

\* A compaction score, the quotient n / d.
Score(n, d) == [n |-> n, d |-> d]
ScoreGreater(a, b) == a.n * b.d > b.n * a.d

\* struct Version: the files of each level, compaction_level, compaction_score.
NewVersion == [files |-> [l \in Levels |-> <<>>], level |-> -1, score |-> Score(-1, 1)]

\* ------------------------------------------------------------ state
VARIABLES
    files,      \* inode -> the records of the file, in order
    logIno,     \* the inode named dir/log
    tmpIno,     \* the inode named dir/log.temp, 0 when there is none
    fdIno,      \* the inode the store's log_writer and reader have open
    nextIno,    \* next unused inode
    wpos,       \* log_writer.pos
    wlock,      \* the thread holding the log_writer mutex, 0 when free
    maps,       \* map object -> key -> offset (the DashMap behind an Arc)
    kvRef,      \* thread -> the map object its handle's kv field points to
    nextMap,    \* next unused map object
    pc,         \* thread -> where it is in its operation
    op,         \* thread -> the operation in progress
    lpos,       \* thread -> the local pos of set
    res,        \* thread -> the result its last operation returned
    cIno,       \* thread -> inode of the writer and reader local to compact
    cwpos,      \* thread -> pos of the writer local to compact
    ckv,        \* thread -> the map compact is building
    cvisited,   \* thread -> keys the iterator of compact has passed
    nCompact,   \* compaction runs started
    settled,    \* key -> value of the last write when it overlapped no other write
    ovl,        \* thread -> 0, or 1/2 when a set/remove of the same key overlapped
    hadKey,     \* thread -> its set found the key already mapped
    owner,      \* key -> threads that issued a write of the key
    lastIssued, \* key -> the last write issued for the key
    rlock,      \* the thread holding the reader mutex, 0 when free
    queue,      \* jobs sent on the channel and not yet received, oldest first
    jkind,      \* job -> "ok": its closure returns, "panic": panics, "hang": never returns
    jstate,     \* job -> new, queued, running, done, panicked or refused
    wstate,     \* worker -> lock, recv, run or dead
    wjob,       \* worker -> the job it is running, 0 when none
    qlock,      \* the worker holding the mutex around the Receiver, 0 when free
    poisoned,   \* the mutex around the Receiver is poisoned
    poolAlive,  \* the SharedQueueThreadPool (and its Sender) is not dropped
    procAlive,  \* the process has not exited
    spawnRes,   \* result of the last call of spawn: none, ok or panic
    conn,       \* connection -> none, sent (request written) or closed
    mem,        \* LSM: the memtable, a set of entries (internal key, value_pos)
    imm,        \* LSM: the immutable memtable, "none" when there is none
    lastSeq,    \* LSM: versions.last_sequence
    current,    \* LSM: versions.current, the files of each level and the score
    lres,       \* LSM: result of the last operation of the LSM engine
    args,       \* the arguments of the function of version.rs under execution
    locals,     \* its local variables
    ret         \* its result, "none" while it runs

fileVars == <<files, logIno, tmpIno, fdIno, nextIno, wpos, wlock>>
mapVars == <<maps, kvRef, nextMap>>
compactVars == <<cIno, cwpos, ckv, cvisited, nCompact>>
ghostVars == <<settled, ovl, hadKey, owner, lastIssued>>
engineVars == <<files, logIno, tmpIno, fdIno, nextIno, wpos, wlock, maps, kvRef, nextMap,
                pc, op, lpos, res, cIno, cwpos, ckv, cvisited, nCompact,
                settled, ovl, hadKey, owner, lastIssued>>
poolVars == <<queue, jkind, jstate, wstate, wjob, qlock, poisoned, poolAlive, procAlive,
              spawnRes>>
srvVars == <<conn>>
lsmVars == <<mem, imm, lastSeq, current, lres, args, locals, ret>>
vars == <<engineVars, rlock, poolVars, srvVars, lsmVars>>

Workers == 1..NumWorkers
Jobs == 1..MaxJobs
Conns == 1..MaxConn

Inodes == 1..(MaxCompact + 1)
MapIds == 1..(MaxCompact + 1)
NoOp == [name |-> "none", key |-> "", value |-> ""]

\* The map behind the handle of thread t.
KV(t) == maps[kvRef[t]]

\* KvStore::get through the handle of thread t.
get(t, k) ==
    IF ~ContainsKey(KV(t), k) THEN "none"
    ELSE LET r == ReadRecordAt(files[fdIno], KV(t)[k]) IN
         IF r = Corrupt THEN "err"
         ELSE IF r.cmd = "Remove" THEN "none" ELSE r.value

\* KvStore::open on a fresh directory, and one clone of the handle per thread;
\* SharedQueueThreadPool::new(NumWorkers): every worker is at the top of its loop.
InitStore ==
    /\ files = [i \in Inodes |-> <<>>]
    /\ logIno = 1 /\ tmpIno = 0 /\ fdIno = 1 /\ nextIno = 2
    /\ wpos = 0 /\ wlock = 0
    /\ maps = [i \in MapIds |-> EmptyMap]
    /\ kvRef = [t \in Threads |-> 1]
    /\ nextMap = 2
    /\ pc = [t \in Threads |-> "idle"]
    /\ op = [t \in Threads |-> NoOp]
    /\ lpos = [t \in Threads |-> 0]
    /\ res = [t \in Threads |-> "none"]
    /\ cIno = [t \in Threads |-> 0]
    /\ cwpos = [t \in Threads |-> 0]
    /\ ckv = [t \in Threads |-> EmptyMap]
    /\ cvisited = [t \in Threads |-> {}]
    /\ nCompact = 0
    /\ settled = [k \in Keys |-> "unknown"]
    /\ ovl = [t \in Threads |-> 0]
    /\ hadKey = [t \in Threads |-> FALSE]
    /\ owner = [k \in Keys |-> {}]
    /\ lastIssued = [k \in Keys |-> "unknown"]
    /\ rlock = 0
    /\ queue = <<>>
    /\ jkind = [j \in Jobs |-> "ok"]
    /\ jstate = [j \in Jobs |-> "new"]
    /\ wstate = [w \in Workers |-> "lock"]
    /\ wjob = [w \in Workers |-> 0]
    /\ qlock = 0 /\ poisoned = FALSE
    /\ poolAlive = TRUE /\ procAlive = TRUE
    /\ spawnRes = "none"
    /\ conn = [c \in Conns |-> "none"]

\* The LSM engine with an empty memtable, no immutable memtable and a version
\* without files; no function of version.rs under execution.
InitLsm ==
    /\ mem = {} /\ imm = "none" /\ lastSeq = 0
    /\ current = NewVersion
    /\ lres = <<"none">>
    /\ args = <<>> /\ locals = <<>> /\ ret = "none"

Init == InitStore /\ InitLsm

\* Threads other than t inside a set or remove of key k.
Writing(t, k) ==
    {u \in Threads \ {t} : pc[u] # "idle" /\ op[u].name \in {"set", "remove"} /\ op[u].key = k}

\* The log may grow by one more record.
LogRoom ==
    Len(files[fdIno]) + Cardinality({u \in Threads : pc[u] = "rm_wait"}) < MaxLog

\* Threads other than t that hold the map's read guard of key k: a get between its
\* lookup and the end of its match.
Reading(t, k) ==
    {u \in Threads \ {t} : pc[u] \in {"get_wait", "get_read"} /\ op[u].key = k}

\* The mutex of log_writer can be taken.
CanLockAlways(t) == TRUE
CanLock(t) == wlock = 0

\* Bookkeeping when thread t starts a write of kind n on key k.
StartWrite(t, k, n, issued) ==
    /\ ovl' = [u \in Threads |->
                 IF u = t THEN (IF Writing(t, k) = {} THEN 0
                                ELSE IF \E w \in Writing(t, k) : op[w].name = "remove" THEN 2 ELSE 1)
                 ELSE IF u \in Writing(t, k)
                      THEN (IF n = "remove" \/ ovl[u] = 2 THEN 2 ELSE 1)
                      ELSE ovl[u]]
    /\ settled' = [settled EXCEPT ![k] = "unknown"]
    /\ owner' = [owner EXCEPT ![k] = @ \cup {t}]
    /\ lastIssued' = [lastIssued EXCEPT ![k] = issued]

\* set, lines 40-47: serialize, lock the writer, write the line.
SetWrite(t, k, v) ==
    /\ pc[t] = "idle" /\ CanLock(t) /\ LogRoom
    /\ LET r == Record("Set", k, v)
           f == files[fdIno]
       IN /\ files' = [files EXCEPT ![fdIno] = Append(f, r)]
          /\ wpos' = PosAfterWrite(FileSize(f), wpos, RecLen(r))
    /\ wlock' = t
    /\ pc' = [pc EXCEPT ![t] = "set_cs"]
    /\ op' = [op EXCEPT ![t] = [name |-> "set", key |-> k, value |-> v]]
    /\ res' = [res EXCEPT ![t] = "pending"]
    /\ hadKey' = [hadKey EXCEPT ![t] = ContainsKey(KV(t), k)]
    /\ StartWrite(t, k, "set", v)
    /\ UNCHANGED <<logIno, tmpIno, fdIno, nextIno, mapVars, lpos, compactVars>>
    /\ UNCHANGED <<rlock, poolVars, srvVars, lsmVars>>

\* set, lines 48-56: pos = guard.pos - n, flush, drop the guard.
SetUnlock(t) ==
    /\ pc[t] = "set_cs"
    /\ lpos' = [lpos EXCEPT ![t] =
                  StartOffset(wpos, RecLen(Record("Set", op[t].key, op[t].value)))]
    /\ wlock' = 0
    /\ pc' = [pc EXCEPT ![t] = "set_old"]
    /\ UNCHANGED <<files, logIno, tmpIno, fdIno, nextIno, wpos, mapVars, op, res,
                   compactVars, ghostVars>>
    /\ UNCHANGED <<rlock, poolVars, srvVars, lsmVars>>

\* set, lines 57-59: if contains_key then remove. An update of the map waits while
\* a get holds its read guard of the key.
SetRemoveOld(t) ==
    /\ pc[t] = "set_old" /\ Reading(t, op[t].key) = {}
    /\ maps' = [maps EXCEPT ![kvRef[t]] = MapRemove(@, op[t].key)]
    /\ pc' = [pc EXCEPT ![t] = "set_ins"]
    /\ UNCHANGED <<fileVars, kvRef, nextMap, op, lpos, res, compactVars, ghostVars>>
    /\ UNCHANGED <<rlock, poolVars, srvVars, lsmVars>>

\* set, lines 60-62: insert(key, pos), Ok.
SetInsert(t) ==
    /\ pc[t] = "set_ins" /\ Reading(t, op[t].key) = {}
    /\ maps' = [maps EXCEPT ![kvRef[t]] = MapInsert(@, op[t].key, lpos[t])]
    /\ pc' = [pc EXCEPT ![t] = "idle"]
    /\ op' = [op EXCEPT ![t] = NoOp]
    /\ lpos' = [lpos EXCEPT ![t] = 0]
    /\ res' = [res EXCEPT ![t] = "ok"]
    /\ settled' = [settled EXCEPT ![op[t].key] =
                     IF ovl[t] = 0 THEN op[t].value ELSE "unknown"]
    /\ ovl' = [ovl EXCEPT ![t] = 0]
    /\ hadKey' = [hadKey EXCEPT ![t] = FALSE]
    /\ UNCHANGED <<fileVars, kvRef, nextMap, compactVars, owner, lastIssued>>
    /\ UNCHANGED <<rlock, poolVars, srvVars, lsmVars>>

\* get, lines 65-82. The map guard is held until the line is read and the file
\* the reader has open only grows, so the lookup and the read are one step.
Get(t, k) ==
    /\ pc[t] = "idle"
    /\ res' = [res EXCEPT ![t] = get(t, k)]
    /\ UNCHANGED <<fileVars, mapVars, pc, op, lpos, compactVars, ghostVars>>
    /\ UNCHANGED <<rlock, poolVars, srvVars, lsmVars>>

\* remove without its contains_key test.
RmCheckNoTest(t, k) ==
    /\ pc[t] = "idle" /\ LogRoom
    /\ pc' = [pc EXCEPT ![t] = "rm_wait"]
    /\ op' = [op EXCEPT ![t] = [name |-> "remove", key |-> k, value |-> ""]]
    /\ res' = [res EXCEPT ![t] = "pending"]
    /\ StartWrite(t, k, "remove", "removed")
    /\ UNCHANGED <<fileVars, mapVars, lpos, compactVars, hadKey>>
    /\ UNCHANGED <<rlock, poolVars, srvVars, lsmVars>>

\* remove, lines 84-85 and 103-105: the contains_key test and its else branch.
RmCheck(t, k) ==
    /\ pc[t] = "idle"
    /\ IF ContainsKey(KV(t), k)
       THEN /\ LogRoom
            /\ pc' = [pc EXCEPT ![t] = "rm_wait"]
            /\ op' = [op EXCEPT ![t] = [name |-> "remove", key |-> k, value |-> ""]]
            /\ res' = [res EXCEPT ![t] = "pending"]
            /\ StartWrite(t, k, "remove", "removed")
            /\ UNCHANGED hadKey
       ELSE /\ res' = [res EXCEPT ![t] = "NotFound"]
            /\ UNCHANGED <<pc, op, ghostVars>>
    /\ UNCHANGED <<fileVars, mapVars, lpos, compactVars>>
    /\ UNCHANGED <<rlock, poolVars, srvVars, lsmVars>>

\* remove, lines 86-92: serialize, lock the writer, write the line.
RmWrite(t) ==
    /\ pc[t] = "rm_wait" /\ CanLock(t)
    /\ LET r == Record("Remove", op[t].key, "")
           f == files[fdIno]
       IN /\ files' = [files EXCEPT ![fdIno] = Append(f, r)]
          /\ wpos' = PosAfterWrite(FileSize(f), wpos, RecLen(r))
    /\ wlock' = t
    /\ pc' = [pc EXCEPT ![t] = "rm_cs"]
    /\ UNCHANGED <<logIno, tmpIno, fdIno, nextIno, mapVars, op, lpos, res,
                   compactVars, ghostVars>>
    /\ UNCHANGED <<rlock, poolVars, srvVars, lsmVars>>

\* remove, lines 93-100: flush, drop the guard.
RmUnlock(t) ==
    /\ pc[t] = "rm_cs"
    /\ wlock' = 0
    /\ pc' = [pc EXCEPT ![t] = "rm_idx"]
    /\ UNCHANGED <<files, logIno, tmpIno, fdIno, nextIno, wpos, mapVars, op, lpos, res,
                   compactVars, ghostVars>>
    /\ UNCHANGED <<rlock, poolVars, srvVars, lsmVars>>

\* remove, lines 101-102: kv.remove(key), Ok.
RmIndex(t) ==
    /\ pc[t] = "rm_idx" /\ Reading(t, op[t].key) = {}
    /\ maps' = [maps EXCEPT ![kvRef[t]] = MapRemove(@, op[t].key)]
    /\ pc' = [pc EXCEPT ![t] = "idle"]
    /\ op' = [op EXCEPT ![t] = NoOp]
    /\ res' = [res EXCEPT ![t] = "ok"]
    /\ settled' = [settled EXCEPT ![op[t].key] =
                     IF ovl[t] = 0 THEN "removed" ELSE "unknown"]
    /\ ovl' = [ovl EXCEPT ![t] = 0]
    /\ UNCHANGED <<fileVars, kvRef, nextMap, lpos, compactVars, hadKey, owner, lastIssued>>
    /\ UNCHANGED <<rlock, poolVars, srvVars, lsmVars>>

AllIdle == \A t \in Threads : pc[t] = "idle"

\* Every handle is dropped and KvStore::open (lines 110-151) runs on the same
\* directory; the threads get clones of the new handle.
Reopen ==
    /\ AllIdle
    /\ fdIno' = logIno
    /\ files' = [i \in Inodes |-> IF i \in {logIno, tmpIno} THEN files[i] ELSE <<>>]
    /\ wpos' = 0
    /\ wlock' = 0
    /\ maps' = [i \in MapIds |-> IF i = 1 THEN Replay(files[logIno], 0, EmptyMap) ELSE EmptyMap]
    /\ kvRef' = [t \in Threads |-> 1]
    /\ nextMap' = 2
    /\ res' = [t \in Threads |-> "none"]
    /\ UNCHANGED <<logIno, tmpIno, nextIno, pc, op, lpos, compactVars, ghostVars>>
    /\ rlock' = 0
    /\ UNCHANGED <<poolVars, srvVars, lsmVars>>

Next ==
    \/ \E t \in Threads, k \in Keys, v \in Values : SetWrite(t, k, v)
    \/ \E t \in Threads : SetUnlock(t)
    \/ \E t \in Threads : SetRemoveOld(t)
    \/ \E t \in Threads : SetInsert(t)
    \/ \E t \in Threads, k \in Keys : Get(t, k)
    \/ \E t \in Threads, k \in Keys : RmCheck(t, k)
    \/ \E t \in Threads : RmWrite(t)
    \/ \E t \in Threads : RmUnlock(t)
    \/ \E t \in Threads : RmIndex(t)
    \/ Reopen

\* The engine as its public interface drives it: set, get, remove from concurrent
\* clones, and close/reopen.
Spec == Init /\ [][Next]_vars

\* ------------------------------------------------------------ compact
\* compact, lines 154-158: open dir/log.temp (append, create) for the new writer and
\* for the reader, start an empty map.
CompactBegin(t) ==
    /\ pc[t] = "idle" /\ nCompact < MaxCompact
    /\ IF tmpIno = 0
       THEN /\ tmpIno' = nextIno
            /\ nextIno' = nextIno + 1
            /\ files' = [files EXCEPT ![nextIno] = <<>>]
            /\ cIno' = [cIno EXCEPT ![t] = nextIno]
       ELSE /\ cIno' = [cIno EXCEPT ![t] = tmpIno]
            /\ UNCHANGED <<tmpIno, nextIno, files>>
    /\ cwpos' = [cwpos EXCEPT ![t] = 0]
    /\ ckv' = [ckv EXCEPT ![t] = EmptyMap]
    /\ cvisited' = [cvisited EXCEPT ![t] = {}]
    /\ nCompact' = nCompact + 1
    /\ pc' = [pc EXCEPT ![t] = "c_iter"]
    /\ op' = [op EXCEPT ![t] = [name |-> "compact", key |-> "", value |-> ""]]
    /\ res' = [res EXCEPT ![t] = "pending"]
    /\ UNCHANGED <<logIno, fdIno, wpos, wlock, mapVars, lpos, ghostVars>>
    /\ UNCHANGED <<rlock, poolVars, srvVars, lsmVars>>

\* The locals of compact are dropped.
CompactEnd(t, result) ==
    /\ pc' = [pc EXCEPT ![t] = "idle"]
    /\ op' = [op EXCEPT ![t] = NoOp]
    /\ res' = [res EXCEPT ![t] = result]
    /\ cIno' = [cIno EXCEPT ![t] = 0]
    /\ cwpos' = [cwpos EXCEPT ![t] = 0]
    /\ ckv' = [ckv EXCEPT ![t] = EmptyMap]
    /\ cvisited' = [cvisited EXCEPT ![t] = {}]

\* compact, lines 159-171: one turn of the loop over self.kv. The record is read
\* with the reader opened on dir/log.temp; a line that does not parse panics
\* (unwrap), a Set line is appended to dir/log.temp and its offset kept.
CompactVisit(t, k) ==
    /\ pc[t] = "c_iter" /\ k \notin cvisited[t]
    /\ IF ~ContainsKey(KV(t), k)
       THEN /\ cvisited' = [cvisited EXCEPT ![t] = @ \cup {k}]
            /\ UNCHANGED <<files, cwpos, ckv, cIno, pc, op, res>>
       ELSE LET f == files[cIno[t]]
                r == ReadRecordAt(f, KV(t)[k])
                after == PosAfterWrite(FileSize(f), cwpos[t], RecLen(r))
            IN IF r = Corrupt
               THEN /\ CompactEnd(t, "panic")
                    /\ UNCHANGED files
               ELSE IF r.cmd = "Set"
               THEN /\ files' = [files EXCEPT ![cIno[t]] = Append(f, r)]
                    /\ cwpos' = [cwpos EXCEPT ![t] = after]
                    /\ ckv' = [ckv EXCEPT ![t] = MapInsert(@, k, after - RecLen(r))]
                    /\ cvisited' = [cvisited EXCEPT ![t] = @ \cup {k}]
                    /\ UNCHANGED <<cIno, pc, op, res>>
               ELSE /\ cvisited' = [cvisited EXCEPT ![t] = @ \cup {k}]
                    /\ UNCHANGED <<files, cwpos, ckv, cIno, pc, op, res>>
    /\ UNCHANGED <<logIno, tmpIno, fdIno, nextIno, wpos, wlock, mapVars, lpos, nCompact,
                   ghostVars>>
    /\ UNCHANGED <<rlock, poolVars, srvVars, lsmVars>>

\* compact, line 172: rename dir/log.temp over dir/log; expect panics when it fails.
\* The store's log_writer and reader keep the file they opened.
CompactRename(t) ==
    /\ pc[t] = "c_iter" /\ cvisited[t] = Keys
    /\ IF tmpIno = 0
       THEN /\ CompactEnd(t, "panic")
            /\ UNCHANGED <<logIno, tmpIno>>
       ELSE /\ logIno' = tmpIno
            /\ tmpIno' = 0
            /\ pc' = [pc EXCEPT ![t] = "c_swap"]
            /\ UNCHANGED <<op, res, cIno, cwpos, ckv, cvisited>>
    /\ UNCHANGED <<files, fdIno, nextIno, wpos, wlock, mapVars, lpos, nCompact, ghostVars>>
    /\ UNCHANGED <<rlock, poolVars, srvVars, lsmVars>>

\* compact, line 173: self.kv = Arc::new(kv), on the handle compact was called on.
CompactSwap(t) ==
    /\ pc[t] = "c_swap"
    /\ kvRef' = [kvRef EXCEPT ![t] = nextMap]
    /\ maps' = [i \in MapIds |->
                  IF i = nextMap THEN ckv[t]
                  ELSE IF \E u \in Threads \ {t} : kvRef[u] = i THEN maps[i] ELSE EmptyMap]
    /\ nextMap' = nextMap + 1
    /\ CompactEnd(t, "compacted")
    /\ UNCHANGED <<fileVars, lpos, nCompact, ghostVars>>
    /\ UNCHANGED <<rlock, poolVars, srvVars, lsmVars>>

Compact ==
    \/ \E t \in Threads : CompactBegin(t)
    \/ \E t \in Threads, k \in Keys : CompactVisit(t, k)
    \/ \E t \in Threads : CompactRename(t)
    \/ \E t \in Threads : CompactSwap(t)

NextCompact == Next \/ Compact

\* The engine with calls of compact (a private method no caller reaches) added.
SpecCompact == Init /\ [][NextCompact]_vars

\* One operation at a time: thread t may take a step only when no other thread is
\* inside an operation.
Quiet(t) == \A u \in Threads \ {t} : pc[u] = "idle"

NextSeq ==
    \/ \E t \in Threads, k \in Keys, v \in Values : Quiet(t) /\ SetWrite(t, k, v)
    \/ \E t \in Threads : Quiet(t) /\ SetUnlock(t)
    \/ \E t \in Threads : Quiet(t) /\ SetRemoveOld(t)
    \/ \E t \in Threads : Quiet(t) /\ SetInsert(t)
    \/ \E t \in Threads, k \in Keys : Quiet(t) /\ Get(t, k)
    \/ \E t \in Threads, k \in Keys : Quiet(t) /\ RmCheck(t, k)
    \/ \E t \in Threads : Quiet(t) /\ RmWrite(t)
    \/ \E t \in Threads : Quiet(t) /\ RmUnlock(t)
    \/ \E t \in Threads : Quiet(t) /\ RmIndex(t)
    \/ Reopen

\* Sequential use of the engine through the clones of one handle.
SpecSeq == Init /\ [][NextSeq]_vars

\* Sequential use with calls of compact.
NextSeqCompact ==
    \/ NextSeq
    \/ \E t \in Threads : Quiet(t) /\ CompactBegin(t)
    \/ \E t \in Threads, k \in Keys : Quiet(t) /\ CompactVisit(t, k)
    \/ \E t \in Threads : Quiet(t) /\ CompactRename(t)
    \/ \E t \in Threads : Quiet(t) /\ CompactSwap(t)

SpecSeqCompact == Init /\ [][NextSeqCompact]_vars

\* ------------------------------------------------------------ claims
\* The store was reopened on a log that already held records: the writer's pos is 0
\* (append mode) while the file is not empty.
Reopened == wpos = 0 /\ files[fdIno] # <<>>

\* What get returns for a key whose last write is w.
Expected(w) == IF w \in Values THEN w ELSE "none"

\* C1: once set(k, v) has returned and no other write of k overlapped it or came
\* after it, get(k) through every clone of the handle returns v; and at the moment
\* any set(k, v) returns, get(k) through every clone returns v.
SetThenGet ==
    /\ [](\A k \in Keys, t \in Threads : settled[k] \in Values => get(t, k) = settled[k])
    /\ [][\A t \in Threads, k \in Keys :
             (pc[t] = "set_ins" /\ pc'[t] = "idle" /\ op[t].key = k)
                 => \A u \in Threads : get(u, k)' = op[t].value]_vars

\* C1 witness: a thread that never wrote k has read, through its clone, the value
\* another thread set.
SetThenGetSeen ==
    \E k \in Keys, t \in Threads :
        /\ settled[k] \in Values /\ owner[k] = Threads \ {t}
        /\ res[t] = settled[k] /\ get(t, k) = settled[k]

\* C2: after sequential sets and removes, closing and reopening the store leaves
\* the result of get unchanged for every key: the last value set for a live key,
\* none for a key never set or removed.
RoundTrip ==
    [][Reopen => \A t \in Threads, k \in Keys :
                    /\ get(t, k)' = get(t, k)
                    /\ get(t, k)' = Expected(lastIssued[k])]_vars

\* C2 witness: a reopened store in which one key is live and another was removed.
RoundTripSeen ==
    /\ Reopened /\ AllIdle
    /\ \E k1, k2 \in Keys :
        /\ lastIssued[k1] \in Values /\ get(1, k1) = lastIssued[k1]
        /\ lastIssued[k2] = "removed" /\ get(1, k2) = "none"

\* Values get(k) may return once the writer of the i-th record of the log, a Set of
\* k, has released the mutex: its value or that of a later write of k.
LaterWrites(f, k, i) ==
    {f[j].value : j \in {x \in i..Len(f) : f[x].cmd = "Set" /\ f[x].key = k}}
        \cup (IF \E j \in (i + 1)..Len(f) : f[j].cmd = "Remove" /\ f[j].key = k
              THEN {"none"} ELSE {})

\* C3 (as claimed): a get(k) that starts after a set(k, v) released the log-writer
\* mutex returns v or the value of a write of k later in the log, never an older
\* value or not-found.
VisibleAfterRelease ==
    LET f == files[fdIno] IN
    \A i \in 1..Len(f), t \in Threads :
        (f[i].cmd = "Set" /\ (wlock = 0 \/ i < Len(f)))
            => get(t, f[i].key) \in LaterWrites(f, f[i].key, i)

\* C4 (as claimed): for every entry k -> p of the in-memory map, the record at
\* offset p of the file dir/log is a complete Set record of key k.
IndexPointsAtSet ==
    \A t \in Threads, k \in Keys :
        ContainsKey(KV(t), k) =>
            LET r == ReadRecordAt(files[logIno], KV(t)[k]) IN r.cmd = "Set" /\ r.key = k

\* C5: remove(k) of a key absent from the map returns an error, appends nothing
\* and leaves the map unchanged; right after a successful remove(k) the key is
\* absent, so a second remove(k) fails.
RemoveAbsentFails ==
    [][\A t \in Threads, k \in Keys :
          /\ (RmCheck(t, k) /\ ~ContainsKey(KV(t), k))
                => /\ res'[t] = "NotFound" /\ pc'[t] = "idle"
                   /\ files' = files /\ maps' = maps
          /\ (pc[t] = "rm_idx" /\ pc'[t] = "idle" /\ op[t].key = k)
                => /\ res'[t] = "ok"
                   /\ ~ContainsKey(maps'[kvRef'[t]], k)]_vars

\* C5 witness: a remove failed with NotFound on a store where a remove succeeded.
RemoveAbsentSeen ==
    \E t \in Threads, k \in Keys :
        /\ res[t] = "NotFound" /\ settled[k] = "removed" /\ ~ContainsKey(KV(t), k)
        /\ files[fdIno][Len(files[fdIno])] = Record("Remove", k, "")

\* C6: after a successful remove(k) that no set of k overlapped or followed, get(k)
\* returns not-found, on the same store and after reopening.
RemoveThenGet ==
    \A k \in Keys, t \in Threads : settled[k] = "removed" => get(t, k) = "none"

\* C6 witness: a reopened store whose log ends with the Remove of a removed key.
RemoveThenGetSeen ==
    \E k \in Keys :
        /\ Reopened /\ settled[k] = "removed"
        /\ \E i \in 1..Len(files[fdIno]) : files[fdIno][i] = Record("Remove", k, "")
        /\ \A t \in Threads : get(t, k) = "none"

\* C7 (as claimed): while a set overwrites a key that was mapped and no remove of
\* the key runs, no get of the key returns not-found.
AtomicReplace ==
    \A t \in Threads :
        (pc[t] \in {"set_cs", "set_old", "set_ins"} /\ hadKey[t] /\ ovl[t] # 2)
            => \A u \in Threads : get(u, op[t].key) # "none"

\* C8: when all workers have finished, a key written by one worker only reads as
\* the last value that worker set.
NoLostUpdate ==
    AllIdle =>
        \A k \in Keys, t \in Threads :
            (Cardinality(owner[k]) = 1 /\ lastIssued[k] \in Values)
                => get(t, k) = lastIssued[k]

\* C8 witness: two workers wrote disjoint keys, one of them twice, and all finished.
NoLostUpdateSeen ==
    /\ AllIdle /\ Len(files[fdIno]) = MaxLog
    /\ owner["a"] = {1} /\ owner["bb"] = {2}
    /\ \A k \in Keys : lastIssued[k] \in Values /\ get(1, k) = lastIssued[k]

\* C9 (as claimed): a compaction of a store with M live keys produces a file dir/log
\* of exactly M records and keeps the key set of the map.
CompactionKeepsLiveRecords ==
    [][\A t \in Threads :
          (pc[t] \in {"c_iter", "c_swap"} /\ pc'[t] = "idle")
              => /\ res'[t] = "compacted"
                 /\ Len(files'[logIno']) = Cardinality(KeySet(KV(t)))
                 /\ KeySet(maps'[kvRef'[t]]) = KeySet(KV(t))]_vars

\* C10 (as claimed): compaction replaces the map shared by the clones, and when it
\* completes get(k) returns on every clone what it returned before.
CompactionReplacesSharedMap ==
    [][\A t \in Threads :
          (pc[t] = "c_swap" /\ pc'[t] = "idle")
              => /\ \A u \in Threads : kvRef'[u] = kvRef'[t]
                 /\ \A u \in Threads, k \in Keys : get(u, k)' = get(u, k)]_vars

\* C11 (as claimed): between the rename of dir/log.temp over dir/log and the
\* replacement of the map no set or remove is inside its write critical section
\* (the compacting thread holds the log-writer mutex).
CompactionExcludesWriters ==
    \A t \in Threads :
        pc[t] = "c_swap" =>
            \A u \in Threads : pc[u] \notin {"set_cs", "rm_cs"}

\* C12 (as claimed): when a compaction fails before the rename, dir/log.temp is
\* discarded and dir/log, the map and the handles are as they were.
FailedCompactionDiscardsTemp ==
    [][\A t \in Threads :
          (pc[t] = "c_iter" /\ pc'[t] = "idle" /\ res'[t] = "panic")
              => /\ tmpIno' = 0
                 /\ logIno' = logIno /\ files'[logIno'] = files[logIno]
                 /\ maps' = maps /\ kvRef' = kvRef]_vars

\* The threads between the write of their record and the release of the guard.
InWriteSection == {t \in Threads : pc[t] \in {"set_cs", "rm_cs"}}

\* The record a set or remove in progress writes.
RecordOf(o) == Record(IF o.name = "set" THEN "Set" ELSE "Remove", o.key, o.value)

\* C13: at most one thread is inside a write critical section and it holds the
\* log-writer mutex; until it releases the mutex its record is the last one of the
\* log and the writer's pos is the size of the file; the log changes only by the
\* thread that takes the free mutex appending its one complete record.
LogExtendedUnderMutex ==
    /\ [](/\ Cardinality(InWriteSection) <= 1
          /\ \A t \in Threads : t \in InWriteSection <=> wlock = t
          /\ \A t \in InWriteSection :
                /\ files[fdIno] # <<>>
                /\ files[fdIno][Len(files[fdIno])] = RecordOf(op[t])
                /\ wpos = FileSize(files[fdIno]))
    /\ [][files' # files =>
             \E t \in Threads :
                /\ wlock = 0 /\ wlock' = t
                /\ InWriteSection = {} /\ InWriteSection' = {t}
                /\ files' = [files EXCEPT ![fdIno] = Append(@, RecordOf(op'[t]))]]_vars

\* C13 witness: a thread is inside the critical section of a set that overwrites
\* a key, while the other thread waits for the mutex with the Remove of that key.
LogExtendedUnderMutexSeen ==
    \E t, u \in Threads :
        /\ pc[t] = "set_cs" /\ pc[u] = "rm_wait" /\ wlock = t
        /\ op[t].key = op[u].key /\ hadKey[t]
        /\ Len(files[fdIno]) = MaxLog - 1

\* ------------------------------------------------------------ get, step by step
\* The mutex of reader can be taken.
CanLockReader(t) == rlock = 0

\* get, lines 66-67: self.kv.get(&key); None returns Ok(None), Some(pos) keeps the
\* map's read guard for the rest of the match.
GetLookup(t, k) ==
    /\ pc[t] = "idle"
    /\ IF ContainsKey(KV(t), k)
       THEN /\ pc' = [pc EXCEPT ![t] = "get_wait"]
            /\ op' = [op EXCEPT ![t] = [name |-> "get", key |-> k, value |-> ""]]
            /\ lpos' = [lpos EXCEPT ![t] = KV(t)[k]]
            /\ res' = [res EXCEPT ![t] = "pending"]
       ELSE /\ res' = [res EXCEPT ![t] = "none"]
            /\ UNCHANGED <<pc, op, lpos>>
    /\ UNCHANGED <<fileVars, mapVars, compactVars, ghostVars, rlock, poolVars, srvVars, lsmVars>>

\* get, lines 70-71: self.reader.lock(), seek(Start(pos)).
GetLock(t) ==
    /\ pc[t] = "get_wait" /\ CanLockReader(t)
    /\ rlock' = t
    /\ pc' = [pc EXCEPT ![t] = "get_read"]
    /\ UNCHANGED <<fileVars, mapVars, op, lpos, res, compactVars, ghostVars, poolVars,
                   srvVars, lsmVars>>

\* get, lines 72-80: read_line, drop(guard), parse, return.
GetRead(t) ==
    /\ pc[t] = "get_read"
    /\ LET r == ReadRecordAt(files[fdIno], lpos[t]) IN
       res' = [res EXCEPT ![t] = IF r = Corrupt THEN "err"
                                 ELSE IF r.cmd = "Remove" THEN "none" ELSE r.value]
    /\ rlock' = 0
    /\ pc' = [pc EXCEPT ![t] = "idle"]
    /\ op' = [op EXCEPT ![t] = NoOp]
    /\ lpos' = [lpos EXCEPT ![t] = 0]
    /\ UNCHANGED <<fileVars, mapVars, compactVars, ghostVars, poolVars, srvVars, lsmVars>>

NextRead ==
    \/ \E t \in Threads, k \in Keys, v \in Values : SetWrite(t, k, v)
    \/ \E t \in Threads : SetUnlock(t)
    \/ \E t \in Threads : SetRemoveOld(t)
    \/ \E t \in Threads : SetInsert(t)
    \/ \E t \in Threads, k \in Keys : GetLookup(t, k)
    \/ \E t \in Threads : GetLock(t)
    \/ \E t \in Threads : GetRead(t)
    \/ \E t \in Threads, k \in Keys : RmCheck(t, k)
    \/ \E t \in Threads : RmWrite(t)
    \/ \E t \in Threads : RmUnlock(t)
    \/ \E t \in Threads : RmIndex(t)
    \/ Reopen

\* The engine with get taken in its steps: lookup, lock of the reader, read.
SpecRead == Init /\ [][NextRead]_vars

\* C14 (as claimed): a get that has found its key in the map never finds the lock
\* it needs next held by another get.
ReadsDoNotBlockReads ==
    \A t \in Threads : pc[t] = "get_wait" => rlock \notin Threads \ {t}

\* C15 (as claimed): at every write of a record through log_writer, the pos after
\* the write is the pos before it plus the bytes written, and the pos before it is
\* the offset at which the record lies in the file.
WriterPositionContract ==
    [][\A t \in Threads :
          (t \notin InWriteSection /\ t \in InWriteSection')
              => LET f == files'[fdIno]
                     n == FileSize(f) - FileSize(files[fdIno])
                 IN /\ wpos' = wpos + n
                    /\ wpos = Offset(f, Len(f))]_vars

\* C20 (as claimed): when no operation is in flight, the map of every clone is the
\* map the replay of the log from offset 0 builds.
IndexEqualsReplay ==
    AllIdle => \A t \in Threads : KV(t) = Replay(files[fdIno], 0, EmptyMap)

\* ------------------------------------------------------------ shared-queue pool
JobKinds == {"ok", "panic", "hang"}

\* Worker threads that have not unwound: each owns a clone of the Arc around the
\* Receiver, which is dropped with the last of them.
LiveWorkers == {w \in Workers : wstate[w] # "dead"}
ReceiverAlive == LiveWorkers # {}

\* spawn: producer.send(Box::new(job)).unwrap(). send fails, and unwrap panics,
\* when the Receiver is gone. Jobs are numbered in the order of the calls.
PoolSpawn(j, kind) ==
    /\ procAlive /\ poolAlive
    /\ jstate[j] = "new" /\ \A i \in 1..(j - 1) : jstate[i] # "new"
    /\ jkind' = [jkind EXCEPT ![j] = kind]
    /\ IF ReceiverAlive
       THEN /\ queue' = Append(queue, j)
            /\ jstate' = [jstate EXCEPT ![j] = "queued"]
            /\ spawnRes' = "ok"
       ELSE /\ jstate' = [jstate EXCEPT ![j] = "refused"]
            /\ spawnRes' = "panic"
            /\ UNCHANGED queue
    /\ UNCHANGED <<wstate, wjob, qlock, poisoned, poolAlive, procAlive>>
    /\ UNCHANGED <<engineVars, rlock, srvVars, lsmVars>>

\* The pool is dropped, and with it the only Sender of the channel.
PoolDrop ==
    /\ procAlive /\ poolAlive
    /\ poolAlive' = FALSE
    /\ UNCHANGED <<queue, jkind, jstate, wstate, wjob, qlock, poisoned, procAlive, spawnRes>>
    /\ UNCHANGED <<engineVars, rlock, srvVars, lsmVars>>

\* worker_loop: consumer.lock().unwrap(). On a poisoned mutex lock returns Err and
\* unwrap panics: the worker thread unwinds.
WorkerLock(w) ==
    /\ procAlive /\ wstate[w] = "lock" /\ qlock = 0
    /\ IF poisoned
       THEN /\ wstate' = [wstate EXCEPT ![w] = "dead"]
            /\ UNCHANGED qlock
       ELSE /\ wstate' = [wstate EXCEPT ![w] = "recv"]
            /\ qlock' = w
    /\ UNCHANGED <<queue, jkind, jstate, wjob, poisoned, poolAlive, procAlive, spawnRes>>
    /\ UNCHANGED <<engineVars, rlock, srvVars, lsmVars>>

\* worker_loop: .recv() with the guard held. Ok(job) enters the first arm; Err, when
\* the channel is empty and the Sender dropped, enters the second arm: exit(0).
\* recv blocks while the channel is empty and the Sender alive.
WorkerRecv(w) ==
    /\ procAlive /\ wstate[w] = "recv"
    /\ IF queue # <<>>
       THEN /\ queue' = Tail(queue)
            /\ wjob' = [wjob EXCEPT ![w] = Head(queue)]
            /\ jstate' = [jstate EXCEPT ![Head(queue)] = "running"]
            /\ wstate' = [wstate EXCEPT ![w] = "run"]
            /\ UNCHANGED procAlive
       ELSE /\ ~poolAlive
            /\ procAlive' = FALSE
            /\ UNCHANGED <<queue, wjob, jstate, wstate>>
    /\ UNCHANGED <<jkind, qlock, poisoned, poolAlive, spawnRes>>
    /\ UNCHANGED <<engineVars, rlock, srvVars, lsmVars>>

\* worker_loop: job() returns; the guard, a temporary of the match scrutinee, is
\* dropped at the end of the match and the loop starts over.
WorkerReturn(w) ==
    /\ procAlive /\ wstate[w] = "run" /\ jkind[wjob[w]] = "ok"
    /\ jstate' = [jstate EXCEPT ![wjob[w]] = "done"]
    /\ wjob' = [wjob EXCEPT ![w] = 0]
    /\ wstate' = [wstate EXCEPT ![w] = "lock"]
    /\ qlock' = 0
    /\ UNCHANGED <<queue, jkind, poisoned, poolAlive, procAlive, spawnRes>>
    /\ UNCHANGED <<engineVars, rlock, srvVars, lsmVars>>

\* worker_loop: job() panics; the thread unwinds, and the guard dropped while
\* panicking poisons the mutex.
WorkerPanic(w) ==
    /\ procAlive /\ wstate[w] = "run" /\ jkind[wjob[w]] = "panic"
    /\ jstate' = [jstate EXCEPT ![wjob[w]] = "panicked"]
    /\ wjob' = [wjob EXCEPT ![w] = 0]
    /\ wstate' = [wstate EXCEPT ![w] = "dead"]
    /\ qlock' = 0
    /\ poisoned' = TRUE
    /\ UNCHANGED <<queue, jkind, poolAlive, procAlive, spawnRes>>
    /\ UNCHANGED <<engineVars, rlock, srvVars, lsmVars>>

WorkerStep(w) == WorkerLock(w) \/ WorkerRecv(w) \/ WorkerReturn(w) \/ WorkerPanic(w)

NextPool ==
    \/ \E j \in Jobs, kind \in JobKinds : PoolSpawn(j, kind)
    \/ PoolDrop
    \/ \E w \in Workers : WorkerLock(w)
    \/ \E w \in Workers : WorkerRecv(w)
    \/ \E w \in Workers : WorkerReturn(w)
    \/ \E w \in Workers : WorkerPanic(w)

\* The pool, its workers and the threads that call spawn and drop it.
SpecPool == Init /\ [][NextPool]_vars

\* The same with every worker thread scheduled as long as it can take a step.
SpecPoolFair == SpecPool /\ \A w \in Workers : WF_vars(WorkerStep(w))

\* C16 (as claimed): as long as the pool exists, all NumWorkers workers are running
\* a job or are able to receive the next one, however many jobs panicked.
PoolKeepsWorkers ==
    (procAlive /\ poolAlive) => Cardinality(LiveWorkers) = NumWorkers

\* C17 (as claimed): no call of spawn fails, and every job spawn accepted is
\* eventually started, whichever jobs panic.
EveryJobStarted ==
    /\ [](\A j \in Jobs : jstate[j] # "refused")
    /\ \A j \in Jobs :
          (jstate[j] = "queued") ~> (jstate[j] \in {"running", "done", "panicked"})

\* C18 (as claimed): after the pool is dropped the process keeps running; only
\* worker threads end.
PoolDropEndsOnlyWorkers ==
    ~poolAlive => procAlive

\* ------------------------------------------------------------ server
\* A client connects and writes one well-formed request.
ClientConnect(c) ==
    /\ procAlive /\ conn[c] = "none"
    /\ conn' = [conn EXCEPT ![c] = "sent"]
    /\ UNCHANGED <<engineVars, rlock, poolVars, lsmVars>>

\* KvServer::start, lines 140-143: one turn of the loop over listener.incoming().
\* The store is cloned; the call of pool.spawn is commented out, so the clone and
\* the socket are dropped at the end of the turn and the connection is closed.
ServerAccept(c) ==
    /\ procAlive /\ conn[c] = "sent"
    /\ conn' = [conn EXCEPT ![c] = "closed"]
    /\ UNCHANGED <<engineVars, rlock, poolVars, lsmVars>>

NextServer ==
    \/ NextPool
    \/ \E c \in Conns : ClientConnect(c)
    \/ \E c \in Conns : ServerAccept(c)

\* The accept loop of the server next to the pool it was given.
SpecServer == Init /\ [][NextServer]_vars

\* C19 (as claimed): each turn of the accept loop puts exactly one job on the
\* queue of the pool and leaves the connection open for that job.
AcceptSubmitsJob ==
    [][\A c \in Conns :
          (conn[c] = "sent" /\ conn'[c] # "sent")
              => /\ \E j \in Jobs : queue' = Append(queue, j) /\ jstate'[j] = "queued"
                 /\ conn'[c] # "closed"]_vars

\* A compaction has renamed dir/log.temp over dir/log and replaced the map.
CompactionDone == logIno # 1 /\ \A t \in Threads : pc[t] # "c_swap"

\* C21 (as claimed): once a compaction has completed, the record of a set that
\* returned, and that no other write of the key overlapped or followed, is in the
\* file named dir/log, and get returns its value, also after a reopen.
CompactedLogTakesWrites ==
    CompactionDone =>
        \A k \in Keys :
            settled[k] \in Values =>
                /\ \E i \in 1..Len(files[logIno]) :
                      files[logIno][i] = Record("Set", k, settled[k])
                /\ \A t \in Threads : pc[t] = "idle" => get(t, k) = settled[k]

JobStarted(j) == jstate[j] \in {"running", "done", "panicked"}

\* Workers inside a job that never returns.
HungWorkers == {w \in Workers : wstate[w] = "run" /\ jkind[wjob[w]] = "hang"}

\* C22 (as claimed): a job that never returns keeps one worker only: as long as no
\* job panicked and fewer than NumWorkers jobs hang, every job accepted by spawn
\* is eventually started.
HangingJobKeepsOneWorker ==
    \A j \in Jobs :
        (jstate[j] = "queued")
            ~> (JobStarted(j) \/ poisoned \/ Cardinality(HungWorkers) = NumWorkers)

\* ------------------------------------------------------------ LSM engine
\* Offsets into the value log; -1 stands for a removed key.
ValuePos == 0..1
Removed == -1

\* An entry of the memtable: SkipMap<InternalKey, (i64, usize)>, with the command
\* of the internal key.
MemEntry(key, cmd, vpos) == [key |-> key, cmd |-> cmd, vpos |-> vpos]

\* MemTable::insert: the entry is stored under its internal key, in place of an
\* entry whose key compares equal.
MemTableInsert(m, e) == {x \in m : x.key # e.key} \cup {e}

\* MemTable::get: the positions stored under a key that compares equal to k
\* (one position, or none).
MemTableGet(m, k) == {x.vpos : x \in {y \in m : y.key = k}}

\* MemTable::size is unimplemented!(): the call panics.
MemTableSize(m) == "panic"

\* VersionSet::new_file_number and current_num_level_files are unimplemented!().
NewFileNumber == "panic"
CurrentNumLevelFiles == "panic"

\* make_room_for_write, lines 344-373: the first test of the loop calls
\* self.mem.size() unless force is set; with force set the loop goes on to
\* current_num_level_files (no immutable memtable) or new_file_number.
MakeRoomForWrite(force) ==
    IF ~force THEN MemTableSize(mem)
    ELSE IF imm # "none" THEN NewFileNumber
    ELSE CurrentNumLevelFiles

\* KvStore::write, lines 224-240: make_room_for_write(false), then the record is
\* added to the log and to the value log; the insert into the memtable is
\* commented out.
LsmWrite(cmd) ==
    /\ lres' = (IF MakeRoomForWrite(FALSE) = "panic" THEN <<"panic", cmd>> ELSE <<"ok", cmd>>)
    /\ UNCHANGED <<mem, imm, lastSeq, current, args, locals, ret>>
    /\ UNCHANGED <<engineVars, rlock, poolVars, srvVars>>

\* set, lines 153-163, and remove, lines 202-211, of the LSM engine.
LsmSet(uk, v) == LsmWrite("set")
LsmRemove(uk) == LsmWrite("remove")

\* A call of make_room_for_write.
LsmMakeRoom(force) ==
    /\ lres' = (IF MakeRoomForWrite(force) = "panic"
                THEN <<"panic", "make_room">> ELSE <<"ok", "make_room">>)
    /\ UNCHANGED <<mem, imm, lastSeq, current, args, locals, ret>>
    /\ UNCHANGED <<engineVars, rlock, poolVars, srvVars>>

\* A call of MemTable::insert on the memtable of the store.
LsmMemInsert(e) ==
    /\ Cardinality(MemTableInsert(mem, e)) <= MaxMem
    /\ mem' = MemTableInsert(mem, e)
    /\ lres' = <<"inserted">>
    /\ UNCHANGED <<imm, lastSeq, current, args, locals, ret>>
    /\ UNCHANGED <<engineVars, rlock, poolVars, srvVars>>

\* What get answers for a position found in a memtable.
Answer(found) ==
    LET vpos == CHOOSE p \in found : TRUE IN
    IF vpos = Removed THEN <<"none">> ELSE <<"value", vpos>>

\* get of the LSM engine, lines 165-200: the key looked up carries last_sequence;
\* the memtable, then the immutable memtable, then the current version, before
\* which last_sequence is set to 0. A version without files answers none.
LsmGet(uk) ==
    LET ikey == IKey(uk, lastSeq) IN
    /\ IF MemTableGet(mem, ikey) # {}
       THEN /\ lres' = Answer(MemTableGet(mem, ikey))
            /\ UNCHANGED lastSeq
       ELSE IF imm # "none" /\ MemTableGet(imm, ikey) # {}
       THEN /\ lres' = Answer(MemTableGet(imm, ikey))
            /\ UNCHANGED lastSeq
       ELSE /\ lastSeq' = 0
            /\ lres' = <<"none">>
    /\ UNCHANGED <<mem, imm, current, args, locals, ret>>
    /\ UNCHANGED <<engineVars, rlock, poolVars, srvVars>>

MemEntries ==
    {MemEntry(k, "Set", p) : k \in IKeys, p \in ValuePos}
        \cup {MemEntry(k, "Remove", Removed) : k \in IKeys}

\* The LSM engine on a store whose last_sequence is any sequence number.
InitLsmStore ==
    /\ InitStore
    /\ mem = {} /\ imm = "none" /\ lastSeq \in Seqs
    /\ current = NewVersion
    /\ lres = <<"none">>
    /\ args = <<>> /\ locals = <<>> /\ ret = "none"

NextLsm ==
    \/ \E uk \in UserKeys, v \in ValuePos : LsmSet(uk, v)
    \/ \E uk \in UserKeys : LsmRemove(uk)
    \/ \E uk \in UserKeys : LsmGet(uk)
    \/ \E force \in BOOLEAN : LsmMakeRoom(force)
    \/ \E e \in MemEntries : LsmMemInsert(e)

SpecLsm == InitLsmStore /\ [][NextLsm]_vars

\* C23: a write of the LSM engine mutates the memtable: set(k, v) returns normally
\* and leaves a live entry for k in the memtable, remove(k) returns normally and
\* leaves a removal entry for k, so that a get that follows a set finds the value
\* and a get that follows a remove finds none.
WriteMutatesMemtable ==
    [][\A uk \in UserKeys :
          /\ (\E v \in ValuePos : LsmSet(uk, v))
                => /\ lres'[1] = "ok"
                   /\ \E e \in mem' \ mem : e.key.uk = uk /\ e.vpos # Removed
          /\ LsmRemove(uk)
                => /\ lres'[1] = "ok"
                   /\ \E e \in mem' \ mem : e.key.uk = uk /\ e.vpos = Removed]_vars

\* The memtable counts as full and no immutable memtable is pending.
MemFullNoImm == Cardinality(mem) > MemThreshold /\ imm = "none"

\* C24: make_room_for_write called with a full memtable and no immutable memtable
\* pending returns normally, having sealed the memtable as the immutable memtable
\* and started an empty one; every call of it returns.
MakeRoomSealsAndReturns ==
    [][\A force \in BOOLEAN :
          LsmMakeRoom(force)
              => /\ lres'[1] = "ok"
                 /\ MemFullNoImm => (imm' = mem /\ mem' = {})]_vars

\* ------------------------------------------------- VersionSet::log_and_apply
\* Entries a vector of files is let grow to.
MaxVec == 3
\* kL0_CompactionTrigger.
L0CompactionTrigger == 4

\* The table files with a number: the size follows the number (in MiB), the keys
\* of a file carry one sequence number.
FilesOf(num) ==
    {FileMeta(num, num, IKey(r[1], s), IKey(r[2], s)) :
        r \in {x \in UserKeys \X UserKeys : x[1] <= x[2]}, s \in Seqs}

\* total_file_size, in MiB.
RECURSIVE TotalFileSize(_)
TotalFileSize(fs) == IF fs = <<>> THEN 0 ELSE Head(fs).size + TotalFileSize(Tail(fs))

\* max_bytes_for_level, in MiB: 10 MiB, times 10 for every level above 1.
RECURSIVE MaxBytesForLevel(_)
MaxBytesForLevel(level) == IF level > 1 THEN 10 * MaxBytesForLevel(level - 1) ELSE 10

\* The score of a level, lines 167-172.
LevelScore(fs, level) ==
    IF level = 0 THEN Score(Len(fs[level]), L0CompactionTrigger)
    ELSE Score(TotalFileSize(fs[level]), MaxBytesForLevel(level))

\* The loop of lines 165-178 over the levels 0 .. NUM_LEVELS - 2: the first level
\* of the greatest score, from (-1, -1.0).
RECURSIVE BestFrom(_, _, _)
BestFrom(fs, level, best) ==
    IF level >= NumLevels - 1 THEN best
    ELSE IF ScoreGreater(LevelScore(fs, level), best.score)
         THEN BestFrom(fs, level + 1, [level |-> level, score |-> LevelScore(fs, level)])
         ELSE BestFrom(fs, level + 1, best)
Best(fs) == BestFrom(fs, 0, [level |-> -1, score |-> Score(-1, 1)])

\* A version with its compaction level and score.
Version(fs) == [files |-> fs, level |-> Best(fs).level, score |-> Best(fs).score]

\* binary_search_by of lines 134-141 over a vector sorted by smallest key: the
\* number of base files that do not sort after the added file.
Bpos(base, added) == Cardinality({i \in 1..Len(base) : ~FileLess(added, base[i])})

\* The assertion of lines 147 and 156.
AssertOrdered(fs, f) == KeyLess(fs[Len(fs)].largest, f.smallest)

\* The deepest level the edits and base versions drawn for log_and_apply put a
\* file at.
MaxEditLevel == 1
EditLevels == 0..MaxEditLevel

\* The edits: files 2 and 3 added at some level or not at all, at most one
\* deletion.
Additions(num) == {{}} \cup {{<<l, f>>} : l \in EditLevels, f \in FilesOf(num)}
Edits ==
    {[new_files |-> a2 \cup a3, deleted_files |-> d] :
        a2 \in Additions(2), a3 \in Additions(3),
        d \in {{}} \cup {{<<l, n>>} : l \in EditLevels, n \in FileNums}}

\* The base versions: no file, or file 1 at some level.
Bases ==
    {Version([l \in Levels |-> <<>>])}
        \cup {Version([l \in Levels |-> IF l = lb THEN <<f>> ELSE <<>>]) :
                 lb \in EditLevels, f \in FilesOf(1)}

\* log_and_apply is called with an edit on a version set whose current version
\* is a base version.
InitApply ==
    /\ InitStore
    /\ mem = {} /\ imm = "none" /\ lastSeq = 0 /\ lres = <<"none">>
    /\ current \in Bases
    /\ args \in Edits
    /\ locals = [pc |-> "start"]
    /\ ret = [status |-> "none", built |-> NewVersion]

\* Lines 97-118: the deleted numbers and the added files of each level; an added
\* file whose number is deleted at its level is not added, and the number leaves
\* the deleted set.
ApplyBegin ==
    /\ locals.pc = "start"
    /\ locals' =
         [pc |-> "for_added",
          level |-> 0,
          deleted |-> [l \in Levels |->
                         {d[2] : d \in {x \in args.deleted_files : x[1] = l}}
                             \ {a[2].num : a \in {x \in args.new_files : x[1] = l}}],
          added |-> [l \in Levels |->
                       SortFiles({a[2] : a \in
                           {x \in args.new_files :
                               x[1] = l /\ <<l, x[2].num>> \notin args.deleted_files}})],
          idx |-> 0,
          bpos |-> 0,
          files |-> [l \in Levels |-> <<>>]]
    /\ UNCHANGED <<mem, imm, lastSeq, current, lres, args, ret>>
    /\ UNCHANGED <<engineVars, rlock, poolVars, srvVars>>

\* Lines 132-141: the next added file of the level, and bpos for it.
ApplyBpos ==
    /\ locals.pc = "for_added"
    /\ locals.added[locals.level] # <<>>
    /\ locals' = [locals EXCEPT
         !.pc = "while",
         !.bpos = Bpos(current.files[locals.level], Head(locals.added[locals.level]))]
    /\ UNCHANGED <<mem, imm, lastSeq, current, lres, args, ret>>
    /\ UNCHANGED <<engineVars, rlock, poolVars, srvVars>>

\* Lines 142-151, one iteration of the while loop: idx is never advanced, so the
\* file is base_files[idx] every time. A vector that has reached MaxVec entries
\* is left as it is.
ApplyWhile ==
    LET l == locals.level
        f == current.files[l][locals.idx + 1]
        fs == locals.files[l]
    IN
    /\ locals.pc = "while"
    /\ locals.idx < locals.bpos
    /\ IF f.num \in locals.deleted[l]
       THEN UNCHANGED <<locals, ret>>
       ELSE IF l > 0 /\ fs # <<>> /\ ~AssertOrdered(fs, f)
       THEN /\ locals' = [locals EXCEPT !.pc = "done"]
            /\ ret' = [ret EXCEPT !.status = "panic"]
       ELSE /\ locals' = [locals EXCEPT
                 !.files[l] = IF Len(fs) < MaxVec THEN Append(fs, f) ELSE fs]
            /\ UNCHANGED ret
    /\ UNCHANGED <<mem, imm, lastSeq, current, lres, args>>
    /\ UNCHANGED <<engineVars, rlock, poolVars, srvVars>>

\* Lines 152-159: the added file is pushed unless deleted.
ApplyAdded ==
    LET l == locals.level
        f == Head(locals.added[l])
        fs == locals.files[l]
    IN
    /\ locals.pc = "while"
    /\ ~(locals.idx < locals.bpos)
    /\ IF f.num \in locals.deleted[l]
       THEN /\ locals' = [locals EXCEPT !.pc = "for_added", !.added[l] = Tail(@)]
            /\ UNCHANGED ret
       ELSE IF l > 0 /\ fs # <<>> /\ ~AssertOrdered(fs, f)
       THEN /\ locals' = [locals EXCEPT !.pc = "done"]
            /\ ret' = [ret EXCEPT !.status = "panic"]
       ELSE /\ locals' = [locals EXCEPT
                 !.pc = "for_added", !.added[l] = Tail(@), !.files[l] = Append(fs, f)]
            /\ UNCHANGED ret
    /\ UNCHANGED <<mem, imm, lastSeq, current, lres, args>>
    /\ UNCHANGED <<engineVars, rlock, poolVars, srvVars>>

\* Line 129: the added files of the level are done, on to the next level.
ApplyNextLevel ==
    /\ locals.pc = "for_added"
    /\ locals.added[locals.level] = <<>>
    /\ locals' = IF locals.level + 1 < NumLevels
                 THEN [locals EXCEPT !.level = @ + 1]
                 ELSE [locals EXCEPT !.pc = "score"]
    /\ UNCHANGED <<mem, imm, lastSeq, current, lres, args, ret>>
    /\ UNCHANGED <<engineVars, rlock, poolVars, srvVars>>

\* Lines 163-184: the score of the version built, which is then dropped:
\* log_and_apply returns Ok(()) and current is what it was. The version built is
\* kept with the result.
ApplyFinish ==
    /\ locals.pc = "score"
    /\ locals' = [locals EXCEPT !.pc = "done"]
    /\ ret' = [status |-> "ok", built |-> Version(locals.files)]
    /\ UNCHANGED <<mem, imm, lastSeq, current, lres, args>>
    /\ UNCHANGED <<engineVars, rlock, poolVars, srvVars>>

NextApply ==
    \/ ApplyBegin
    \/ ApplyBpos
    \/ ApplyWhile
    \/ ApplyAdded
    \/ ApplyNextLevel
    \/ ApplyFinish

SpecApply == InitApply /\ [][NextApply]_vars

\* The call is scheduled as long as it can take a step.
SpecApplyFair == SpecApply /\ WF_vars(NextApply)

\* The files of the base version and of the edit at a level.
BaseFilesAt(l) == {current.files[l][i] : i \in 1..Len(current.files[l])}
AddedFilesAt(l) == {a[2] : a \in {x \in args.new_files : x[1] = l}}
DeletedAt(l) == {d[2] : d \in {x \in args.deleted_files : x[1] = l}}

\* C25: the version log_and_apply builds holds at every level the files of the
\* base version and the files the edit adds, less the files the edit deletes, in
\* ascending order of smallest key; the base files of a level the edit adds
\* nothing to, and those that sort after the last added file, are kept.
BuiltIsBasePlusAddedMinusDeleted ==
    ret.status = "ok" =>
        \A l \in Levels :
            ret.built.files[l] =
                SortFiles({f \in BaseFilesAt(l) \cup AddedFilesAt(l) :
                              f.num \notin DeletedAt(l)})

\* C26: after log_and_apply has succeeded, current is the version it built, with
\* the compaction level and score of that version.
CurrentIsBuiltVersion ==
    ret.status = "ok" => current = ret.built

\* C27: log_and_apply terminates, for every edit and base version.
LogAndApplyTerminates == <>(ret.status # "none")

\* C28: in a version built without a failed assertion, the files of a level
\* above 0 ascend by smallest key and the user-key ranges of any two of them are
\* disjoint.
UpperLevelsDisjoint ==
    ret.status = "ok" =>
        \A l \in Levels \ {0} :
            \A i, j \in 1..Len(ret.built.files[l]) :
                i < j =>
                    /\ KeyLess(ret.built.files[l][i].smallest, ret.built.files[l][j].smallest)
                    /\ ret.built.files[l][i].largest.uk < ret.built.files[l][j].smallest.uk

\* ------------------------------------------------ Version::get_overlap_inputs
\* The vectors of n files, file i carrying the number i.
FileLists(n) ==
    {fs \in [1..n -> UNION {FilesOf(i) : i \in 1..n}] :
        \A i \in 1..n : fs[i].num = i /\ fs[i].smallest.seq = 1}

\* The files of a level as log_and_apply leaves them: in ascending order of
\* smallest key, and above level 0 each file after the largest key of the one
\* before it.
LevelFiles(level) ==
    {fs \in UNION {FileLists(n) : n \in 0..MaxFiles} :
        \A i \in 1..(Len(fs) - 1) :
            /\ FileLess(fs[i], fs[i + 1])
            /\ level > 0 => KeyLess(fs[i].largest, fs[i + 1].smallest)}

\* The test of line 406 on user keys.
OverlapsRange(f, user_begin, user_end) ==
    ~(f.largest.uk < user_begin \/ f.smallest.uk > user_end)

\* get_overlap_inputs is called on the files of a level with begin <= end.
InitOverlap ==
    /\ InitStore
    /\ mem = {} /\ imm = "none" /\ lastSeq = 0 /\ lres = <<"none">>
    /\ current = NewVersion
    /\ \E level \in Levels, b \in UserKeys, e \in UserKeys :
          /\ b <= e
          /\ \E fs \in LevelFiles(level) :
                args = [level |-> level, files |-> fs,
                        begin |-> IKey(b, 1), end |-> IKey(e, 1)]
    /\ locals = [pc |-> "start"]
    /\ ret = [status |-> "none", inputs |-> <<>>]

\* Lines 399-402.
OverlapBegin ==
    /\ locals.pc = "start"
    /\ locals' = [pc |-> "while", i |-> 0, inputs |-> <<>>,
                  user_begin |-> args.begin.uk, user_end |-> args.end.uk]
    /\ UNCHANGED <<mem, imm, lastSeq, current, lres, args, ret>>
    /\ UNCHANGED <<engineVars, rlock, poolVars, srvVars>>

\* Lines 403-420, one iteration of the loop: a file that overlaps is pushed; at
\* level 0 a file reaching beyond the range widens it, clears inputs and sets i
\* to 0; then i += 1 in every case.
OverlapStep ==
    LET f == args.files[locals.i + 1]
        hit == OverlapsRange(f, locals.user_begin, locals.user_end)
    IN
    /\ locals.pc = "while"
    /\ locals.i < Len(args.files)
    /\ locals' =
         IF ~hit THEN [locals EXCEPT !.i = @ + 1]
         ELSE IF args.level = 0 /\ f.smallest.uk < locals.user_begin
         THEN [locals EXCEPT !.user_begin = f.smallest.uk, !.inputs = <<>>, !.i = 0 + 1]
         ELSE IF args.level = 0 /\ f.largest.uk > locals.user_end
         THEN [locals EXCEPT !.user_end = f.largest.uk, !.inputs = <<>>, !.i = 0 + 1]
         ELSE [locals EXCEPT !.inputs = Append(@, f), !.i = @ + 1]
    /\ UNCHANGED <<mem, imm, lastSeq, current, lres, args, ret>>
    /\ UNCHANGED <<engineVars, rlock, poolVars, srvVars>>

\* The loop ends, inputs is the result.
OverlapReturn ==
    /\ locals.pc = "while"
    /\ ~(locals.i < Len(args.files))
    /\ locals' = [locals EXCEPT !.pc = "done"]
    /\ ret' = [status |-> "ok", inputs |-> locals.inputs]
    /\ UNCHANGED <<mem, imm, lastSeq, current, lres, args>>
    /\ UNCHANGED <<engineVars, rlock, poolVars, srvVars>>

NextOverlap == OverlapBegin \/ OverlapStep \/ OverlapReturn

SpecOverlap == InitOverlap /\ [][NextOverlap]_vars

\* The range [b, e] widened by the level-0 files it overlaps, up to the fixed
\* point.
RECURSIVE Widened(_, _, _)
Widened(fs, b, e) ==
    LET hits == {i \in 1..Len(fs) : OverlapsRange(fs[i], b, e)}
        reach == {i \in hits : fs[i].smallest.uk < b \/ fs[i].largest.uk > e}
    IN IF reach = {} THEN <<b, e>>
       ELSE LET i == CHOOSE x \in reach : TRUE
                nb == IF fs[i].smallest.uk < b THEN fs[i].smallest.uk ELSE b
                ne == IF fs[i].largest.uk > e THEN fs[i].largest.uk ELSE e
            IN Widened(fs, nb, ne)

\* The files get_overlap_inputs is to return.
OverlapExpected ==
    LET range == IF args.level = 0
                 THEN Widened(args.files, args.begin.uk, args.end.uk)
                 ELSE <<args.begin.uk, args.end.uk>>
    IN {args.files[i] : i \in
           {x \in 1..Len(args.files) : OverlapsRange(args.files[x], range[1], range[2])}}

\* C29: get_overlap_inputs returns exactly the files of the level whose user-key
\* range overlaps [begin, end], at level 0 overlaps the range widened to its
\* fixed point: after a restart every file, the one at index 0 too, is looked at
\* again.
OverlapInputsExact ==
    ret.status = "ok" =>
        {ret.inputs[i] : i \in 1..Len(ret.inputs)} = OverlapExpected

\* ------------------------------------------------------------------ find_file
\* The vectors of n files in ascending order of largest key; file i carries the
\* number i and holds one key (find_file reads the largest key of a file only).
SortedByLargest(n) ==
    {[i \in 1..n |-> FileMeta(i, i, ks[i], ks[i])] :
        ks \in {x \in [1..n -> IKeys] : \A i \in 1..(n - 1) : KeyLeq(x[i], x[i + 1])}}

\* find_file is called with a vector of files sorted by largest key and a key.
InitFind ==
    /\ InitStore
    /\ mem = {} /\ imm = "none" /\ lastSeq = 0 /\ lres = <<"none">>
    /\ current = NewVersion
    /\ \E n \in 0..MaxFiles :
          \E fs \in SortedByLargest(n) :
              \E key \in IKeys : args = [files |-> fs, key |-> key]
    /\ locals = [pc |-> "start"]
    /\ ret = [status |-> "none", index |-> 0]

\* Lines 586-587.
FindBegin ==
    /\ locals.pc = "start"
    /\ locals' = [pc |-> "while", l |-> 0, r |-> Len(args.files)]
    /\ UNCHANGED <<mem, imm, lastSeq, current, lres, args, ret>>
    /\ UNCHANGED <<engineVars, rlock, poolVars, srvVars>>

\* key >= files[mid].largest_key.
KeyAfterIncl(key, f) == KeyLeq(f.largest, key)

\* The test of line 590: key > files[mid].largest_key.
KeyAfter(key, f) == KeyLess(f.largest, key)

\* Lines 588-595, one iteration of the loop.
FindStep ==
    LET mid == (locals.l + locals.r) \div 2 IN
    /\ locals.pc = "while"
    /\ locals.l < locals.r
    /\ locals' = IF KeyAfter(args.key, args.files[mid + 1])
                 THEN [locals EXCEPT !.l = mid + 1]
                 ELSE [locals EXCEPT !.r = mid]
    /\ UNCHANGED <<mem, imm, lastSeq, current, lres, args, ret>>
    /\ UNCHANGED <<engineVars, rlock, poolVars, srvVars>>

\* Line 596: r is returned.
FindReturn ==
    /\ locals.pc = "while"
    /\ ~(locals.l < locals.r)
    /\ locals' = [locals EXCEPT !.pc = "done"]
    /\ ret' = [status |-> "ok", index |-> locals.r]
    /\ UNCHANGED <<mem, imm, lastSeq, current, lres, args>>
    /\ UNCHANGED <<engineVars, rlock, poolVars, srvVars>>

NextFind == FindBegin \/ FindStep \/ FindReturn

SpecFind == InitFind /\ [][NextFind]_vars

\* The indices (from 0) of the files whose largest key is not before the key.
Qualifying == {i \in 0..(Len(args.files) - 1) : KeyLeq(args.key, args.files[i + 1].largest)}

\* C30: find_file returns the smallest index i with key <= files[i].largest_key
\* in the order of internal keys, and the length of the vector when there is no
\* such file.
FindFileSmallestIndex ==
    ret.status = "ok" =>
        IF Qualifying = {} THEN ret.index = Len(args.files)
        ELSE ret.index \in Qualifying /\ \A i \in Qualifying : ret.index <= i

\* find_file has returned an index inside the vector: the file before it has
\* another largest key, the file after it the same largest key.
FindFileInsideSeen ==
    /\ ret.status = "ok"
    /\ ret.index > 0 /\ ret.index + 1 < Len(args.files)
    /\ args.files[ret.index + 2].largest = args.files[ret.index + 1].largest
    /\ args.files[ret.index].largest # args.files[ret.index + 1].largest

\* ------------------------------------ Version::pick_level_for_memtable_output
\* MAX_MEM_COMPACT_LEVEL.
MaxMemCompactLevel == 2
\* Options::max_file_size, in MiB.
MaxFileSize == 2
\* max_grandparent_overlap_bytes, in MiB.
MaxGrandparentOverlapBytes == MaxFileSize * 10
\* The sequence number that sorts before every other (MAX_SEQUENCE_NUM).
MaxSequenceNum == MaxSeq

\* find_file as a function: the loop of lines 588-595 from (l, r).
RECURSIVE FindLoop(_, _, _, _)
FindLoop(fs, key, l, r) ==
    IF l < r
    THEN LET mid == (l + r) \div 2 IN
         IF KeyAfter(key, fs[mid + 1]) THEN FindLoop(fs, key, mid + 1, r)
         ELSE FindLoop(fs, key, l, mid)
    ELSE r
FindFile(fs, key) == FindLoop(fs, key, 0, Len(fs))

\* overlap_in_level that takes a file starting at the last user key of the range
\* as not overlapping.
OverlapInLevelStrict(v, level, lo, hi) ==
    LET fs == v.files[level] IN
    IF level = 0
    THEN \E i \in 1..Len(fs) : ~(lo > fs[i].largest.uk \/ hi < fs[i].smallest.uk)
    ELSE LET idx == FindFile(fs, IKey(lo, MaxSequenceNum)) IN
         IF idx >= Len(fs) THEN FALSE ELSE hi > fs[idx + 1].smallest.uk

\* overlap_in_level, lines 335-364.
OverlapInLevel(v, level, lo, hi) ==
    LET fs == v.files[level] IN
    IF level = 0
    THEN \E i \in 1..Len(fs) : ~(lo > fs[i].largest.uk \/ hi < fs[i].smallest.uk)
    ELSE LET idx == FindFile(fs, IKey(lo, MaxSequenceNum)) IN
         IF idx >= Len(fs) THEN FALSE ELSE hi >= fs[idx + 1].smallest.uk

\* get_overlap_inputs as a function: the loop of lines 403-420 from index i.
RECURSIVE OverlapLoop(_, _, _, _, _, _)
OverlapLoop(fs, level, i, ub, ue, inputs) ==
    IF i < Len(fs)
    THEN LET f == fs[i + 1] IN
         IF ~OverlapsRange(f, ub, ue) THEN OverlapLoop(fs, level, i + 1, ub, ue, inputs)
         ELSE IF level = 0 /\ f.smallest.uk < ub
         THEN OverlapLoop(fs, level, 0 + 1, f.smallest.uk, ue, <<>>)
         ELSE IF level = 0 /\ f.largest.uk > ue
         THEN OverlapLoop(fs, level, 0 + 1, ub, f.largest.uk, <<>>)
         ELSE OverlapLoop(fs, level, i + 1, ub, ue, Append(inputs, f))
    ELSE inputs
GetOverlapInputs(v, level, begin, end) ==
    OverlapLoop(v.files[level], level, 0, begin.uk, end.uk, <<>>)

\* A table file of 12 MiB over the user keys lo..hi.
BigFile(num, lo, hi) == FileMeta(num, 12, IKey(lo, 1), IKey(hi, 1))

\* The vectors of at most n such files with disjoint ascending user-key ranges.
RangeFiles(n) ==
    UNION {{fs \in [1..k -> {BigFile(i, r[1], r[2]) :
                                i \in 1..k,
                                r \in {x \in UserKeys \X UserKeys : x[1] <= x[2]}}] :
               /\ \A i \in 1..k : fs[i].num = i
               /\ \A i \in 1..(k - 1) : fs[i].largest.uk < fs[i + 1].smallest.uk} :
           k \in 0..n}

\* The versions pick_level_for_memtable_output is called on: at most one file at
\* levels 0 and 1, at most two at levels 2 and 3.
PickVersions ==
    {Version([l \in Levels |-> IF l = 0 THEN f0 ELSE IF l = 1 THEN f1
                                 ELSE IF l = 2 THEN f2 ELSE IF l = 3 THEN f3 ELSE <<>>]) :
        f0 \in RangeFiles(1), f1 \in RangeFiles(1),
        f2 \in RangeFiles(2), f3 \in RangeFiles(2)}

InitPick ==
    /\ InitStore
    /\ mem = {} /\ imm = "none" /\ lastSeq = 0 /\ lres = <<"none">>
    /\ current \in PickVersions
    /\ \E lo \in UserKeys, hi \in UserKeys :
          lo <= hi /\ args = [smallest_user_key |-> lo, largest_user_key |-> hi]
    /\ locals = [pc |-> "start"]
    /\ ret = [status |-> "none", level |-> 0]

\* Lines 371-375: level is 0; the loop is entered unless level 0 overlaps.
PickBegin ==
    /\ locals.pc = "start"
    /\ locals' =
         [pc |-> IF OverlapInLevel(current, 0, args.smallest_user_key, args.largest_user_key)
                 THEN "return" ELSE "while",
          level |-> 0,
          start |-> IKey(args.smallest_user_key, MaxSequenceNum),
          limit |-> IKey(args.largest_user_key, 0)]
    /\ UNCHANGED <<mem, imm, lastSeq, current, lres, args, ret>>
    /\ UNCHANGED <<engineVars, rlock, poolVars, srvVars>>

\* Lines 376-386, one iteration of the loop.
PickStep ==
    LET level == locals.level IN
    /\ locals.pc = "while"
    /\ level < MaxMemCompactLevel
    /\ locals' =
         IF OverlapInLevel(current, level + 1, args.smallest_user_key, args.largest_user_key)
         THEN [locals EXCEPT !.pc = "return"]
         ELSE IF /\ level + 2 < NumLevels
                 /\ TotalFileSize(GetOverlapInputs(current, level + 2,
                                                   locals.start, locals.limit))
                        > MaxGrandparentOverlapBytes
         THEN [locals EXCEPT !.pc = "return"]
         ELSE [locals EXCEPT !.level = level + 1]
    /\ UNCHANGED <<mem, imm, lastSeq, current, lres, args, ret>>
    /\ UNCHANGED <<engineVars, rlock, poolVars, srvVars>>

\* Line 389: level is returned.
PickReturn ==
    /\ \/ locals.pc = "return"
       \/ locals.pc = "while" /\ ~(locals.level < MaxMemCompactLevel)
    /\ locals' = [locals EXCEPT !.pc = "done"]
    /\ ret' = [status |-> "ok", level |-> locals.level]
    /\ UNCHANGED <<mem, imm, lastSeq, current, lres, args>>
    /\ UNCHANGED <<engineVars, rlock, poolVars, srvVars>>

NextPick == PickBegin \/ PickStep \/ PickReturn

SpecPick == InitPick /\ [][NextPick]_vars

\* The files of a level whose user-key range meets the range of the call.
Overlapping(l) ==
    {i \in 1..Len(current.files[l]) :
        OverlapsRange(current.files[l][i], args.smallest_user_key, args.largest_user_key)}
OverlapBytes(l) ==
    IF l >= NumLevels THEN 0
    ELSE Cardinality(Overlapping(l)) * 12

\* The level reached from L by the rule of the claim.
RECURSIVE Climb(_)
Climb(L) ==
    IF /\ L < MaxMemCompactLevel
       /\ Overlapping(L + 1) = {}
       /\ OverlapBytes(L + 2) <= MaxGrandparentOverlapBytes
    THEN Climb(L + 1)
    ELSE L

\* C31: pick_level_for_memtable_output returns the level reached from level 0 by
\* moving from L to L + 1 while L < 2, no file of level L + 1 overlaps the range
\* and the overlapping files of level L + 2 hold at most 10 x max_file_size: a
\* level in 0..2 that the files of level 0 have no part in.
PickLevelFromUpperLevels ==
    ret.status = "ok" => ret.level \in 0..MaxMemCompactLevel /\ ret.level = Climb(0)

\* C31, amended: when a file of level 0 overlaps the range the result is 0;
\* otherwise it is the level reached from level 0 by that rule; a level in 0..2.
PickLevelAfterLevel0Test ==
    ret.status = "ok" =>
        /\ ret.level \in 0..MaxMemCompactLevel
        /\ ret.level = IF Overlapping(0) # {} THEN 0 ELSE Climb(0)

\* The climb went to level 1 and stopped there for the bytes of level 3.
PickStoppedByGrandparentsSeen ==
    /\ ret.status = "ok"
    /\ ret.level = 1
    /\ Overlapping(0) = {} /\ Overlapping(2) = {}
    /\ OverlapBytes(3) > MaxGrandparentOverlapBytes

\* ------------------------------------------------- VersionSet::pick_compaction
\* Default::default() of an internal key: the empty user key, sequence 0.
DefaultKey == IKey(0, 0)

\* compaction_score >= 1.0.
ScoreAtLeastOne(sc) == sc.n >= sc.d

\* The versions pick_compaction is called on: at most one file at level 0, at
\* most two at level 1, with the compaction level and score of log_and_apply.
CompactVersions ==
    {Version([l \in Levels |-> IF l = 0 THEN f0 ELSE IF l = 1 THEN f1 ELSE <<>>]) :
        f0 \in RangeFiles(1), f1 \in RangeFiles(2)}

\* pick_compaction is called on a version set: its current version, the compact
\* pointer of level 1 (the other levels have the default) and the file marked
\* for a seek compaction, if any.
InitPickCompaction ==
    /\ InitStore
    /\ mem = {} /\ imm = "none" /\ lastSeq = 0 /\ lres = <<"none">>
    /\ current \in CompactVersions
    /\ \E p \in IKeys \cup {DefaultKey}, ftc \in {<<>>, <<BigFile(3, 1, 1)>>} :
          args = [compact_pointer |-> [l \in Levels |-> IF l = 1 THEN p ELSE DefaultKey],
                  file_to_compact |-> ftc,
                  file_to_compact_level |-> 0]
    /\ locals = [pc |-> "start"]
    /\ ret = [status |-> "none", compaction |-> <<>>]

\* Lines 201-209 and 224-229: the kind of compaction.
PickCompactionBegin ==
    /\ locals.pc = "start"
    /\ locals' =
         IF ScoreAtLeastOne(current.score)
         THEN [pc |-> "for", kind |-> "size", level |-> current.level, i |-> 0,
               inputs0 |-> <<>>]
         ELSE IF args.file_to_compact # <<>>
         THEN [pc |-> "end", kind |-> "seek", level |-> args.file_to_compact_level,
               i |-> 0, inputs0 |-> args.file_to_compact]
         ELSE [pc |-> "end", kind |-> "none", level |-> 0, i |-> 0, inputs0 |-> <<>>]
    /\ UNCHANGED <<mem, imm, lastSeq, current, lres, args, ret>>
    /\ UNCHANGED <<engineVars, rlock, poolVars, srvVars>>

\* Lines 212-220, one iteration of the loop over the files of the level.
PickCompactionFor ==
    LET fs == current.files[locals.level]
        ptr == args.compact_pointer[locals.level]
    IN
    /\ locals.pc = "for"
    /\ locals.i < Len(fs)
    /\ locals' =
         IF ptr = DefaultKey \/ KeyLess(ptr, fs[locals.i + 1].largest)
         THEN [locals EXCEPT !.inputs0 = <<fs[locals.i + 1]>>, !.pc = "after_for"]
         ELSE [locals EXCEPT !.i = @ + 1]
    /\ UNCHANGED <<mem, imm, lastSeq, current, lres, args, ret>>
    /\ UNCHANGED <<engineVars, rlock, poolVars, srvVars>>

\* Lines 221-223: without a file picked, the first file of the level.
PickCompactionWrap ==
    LET fs == current.files[locals.level] IN
    /\ \/ locals.pc = "after_for"
       \/ locals.pc = "for" /\ ~(locals.i < Len(fs))
    /\ IF locals.inputs0 # <<>>
       THEN locals' = [locals EXCEPT !.pc = "end"] /\ UNCHANGED ret
       ELSE IF fs = <<>>
       THEN /\ locals' = [locals EXCEPT !.pc = "done"]
            /\ ret' = [ret EXCEPT !.status = "panic"]
       ELSE /\ locals' = [locals EXCEPT !.inputs0 = <<fs[1]>>, !.pc = "end"]
            /\ UNCHANGED ret
    /\ UNCHANGED <<mem, imm, lastSeq, current, lres, args>>
    /\ UNCHANGED <<engineVars, rlock, poolVars, srvVars>>

\* Line 230: unimplemented!(), the compaction put together is not returned.
PickCompactionEnd ==
    /\ locals.pc = "end"
    /\ locals' = [locals EXCEPT !.pc = "done"]
    /\ ret' = [ret EXCEPT !.status = "panic"]
    /\ UNCHANGED <<mem, imm, lastSeq, current, lres, args>>
    /\ UNCHANGED <<engineVars, rlock, poolVars, srvVars>>

NextPickCompaction ==
    \/ PickCompactionBegin
    \/ PickCompactionFor
    \/ PickCompactionWrap
    \/ PickCompactionEnd

SpecPickCompaction == InitPickCompaction /\ [][NextPickCompaction]_vars

\* The compaction pick_compaction is to return.
CompactionExpected ==
    IF ScoreAtLeastOne(current.score)
    THEN LET fs == current.files[current.level]
             after == {i \in 1..Len(fs) :
                          KeyLess(args.compact_pointer[current.level], fs[i].largest)}
             first == IF after = {} THEN 1
                      ELSE CHOOSE i \in after : \A j \in after : i <= j
         IN <<"size", current.level, fs[first]>>
    ELSE IF args.file_to_compact # <<>>
    THEN <<"seek", args.file_to_compact_level, args.file_to_compact[1]>>
    ELSE <<"none">>

\* C32: pick_compaction returns a size compaction at compaction_level when the
\* score is at least 1, with the first file whose largest key is after the
\* compact pointer of the level (the first file of the level without one);
\* otherwise a seek compaction of the file marked for it; otherwise none.
PickCompactionReturns ==
    ret.status # "none" =>
        ret.status = "ok" /\ ret.compaction = CompactionExpected

\* ------------------------------------------- Compaction::is_base_level_for_key
\* The versions a compaction holds: at most two files at each of levels 2 and 3.
GrandparentVersions ==
    {Version([l \in Levels |-> IF l = 2 THEN f2 ELSE IF l = 3 THEN f3 ELSE <<>>]) :
        f2 \in RangeFiles(2), f3 \in RangeFiles(2)}

\* is_base_level_for_key is called on a fresh compaction of a level, which holds
\* a version or none (Compaction::new leaves version None), with a user key.
InitBaseLevel ==
    /\ InitStore
    /\ mem = {} /\ imm = "none" /\ lastSeq = 0 /\ lres = <<"none">>
    /\ current \in GrandparentVersions
    /\ \E level \in 0..(NumLevels - 2), key \in UserKeys, some \in BOOLEAN :
          args = [level |-> level, key |-> key, has_version |-> some]
    /\ locals = [pc |-> "start"]
    /\ ret = [status |-> "none", value |-> FALSE]

\* Line 536: the loop over the levels from level + 2.
BaseLevelBegin ==
    /\ locals.pc = "start"
    /\ locals' = [pc |-> "for", lvl |-> args.level + 2, level_ptr |-> [l \in Levels |-> 0]]
    /\ UNCHANGED <<mem, imm, lastSeq, current, lres, args, ret>>
    /\ UNCHANGED <<engineVars, rlock, poolVars, srvVars>>

\* Line 538 on a compaction without a version: unwrap() panics.
BaseLevelNoVersion ==
    /\ locals.pc = "for"
    /\ locals.lvl < NumLevels
    /\ ~args.has_version
    /\ locals' = [locals EXCEPT !.pc = "done"]
    /\ ret' = [ret EXCEPT !.status = "panic"]
    /\ UNCHANGED <<mem, imm, lastSeq, current, lres, args>>
    /\ UNCHANGED <<engineVars, rlock, poolVars, srvVars>>

\* Lines 537-553, one iteration of the while loop: false is returned for a key
\* from the smallest user key of the file up to, not including, its largest;
\* otherwise nothing changes, level_ptr included.
BaseLevelWhile ==
    LET fs == current.files[locals.lvl]
        f == fs[locals.level_ptr[locals.lvl] + 1]
    IN
    /\ locals.pc = "for"
    /\ locals.lvl < NumLevels
    /\ args.has_version
    /\ locals.level_ptr[locals.lvl] < Len(fs)
    /\ IF args.key < f.largest.uk /\ args.key >= f.smallest.uk
       THEN /\ locals' = [locals EXCEPT !.pc = "done"]
            /\ ret' = [status |-> "ok", value |-> FALSE]
       ELSE UNCHANGED <<locals, ret>>
    /\ UNCHANGED <<mem, imm, lastSeq, current, lres, args>>
    /\ UNCHANGED <<engineVars, rlock, poolVars, srvVars>>

\* Line 555: after the while loop level_ptr of the level is advanced, and the for
\* loop goes on to the next level.
BaseLevelNext ==
    /\ locals.pc = "for"
    /\ locals.lvl < NumLevels
    /\ args.has_version
    /\ ~(locals.level_ptr[locals.lvl] < Len(current.files[locals.lvl]))
    /\ locals' = [locals EXCEPT !.level_ptr[locals.lvl] = @ + 1, !.lvl = @ + 1]
    /\ UNCHANGED <<mem, imm, lastSeq, current, lres, args, ret>>
    /\ UNCHANGED <<engineVars, rlock, poolVars, srvVars>>

\* Line 557: true.
BaseLevelReturn ==
    /\ locals.pc = "for"
    /\ ~(locals.lvl < NumLevels)
    /\ locals' = [locals EXCEPT !.pc = "done"]
    /\ ret' = [status |-> "ok", value |-> TRUE]
    /\ UNCHANGED <<mem, imm, lastSeq, current, lres, args>>
    /\ UNCHANGED <<engineVars, rlock, poolVars, srvVars>>

NextBaseLevel ==
    \/ BaseLevelBegin
    \/ BaseLevelNoVersion
    \/ BaseLevelWhile
    \/ BaseLevelNext
    \/ BaseLevelReturn

SpecBaseLevel == InitBaseLevel /\ [][NextBaseLevel]_vars

\* The call is scheduled as long as it can take a step.
SpecBaseLevelFair == SpecBaseLevel /\ WF_vars(NextBaseLevel)

\* No file of a level from level + 2 covers the key, boundary keys included.
KeyUncovered ==
    \A l \in Levels :
        l >= args.level + 2 =>
            \A i \in 1..Len(current.files[l]) :
                ~(current.files[l][i].smallest.uk <= args.key
                    /\ args.key <= current.files[l][i].largest.uk)

\* C33: is_base_level_for_key on a compaction that holds a version returns, and
\* returns true exactly when no file of a level >= L + 2 covers the user key,
\* the boundary keys of a file counting as covered.
BaseLevelReturnsUncovered ==
    <>(args.has_version => (ret.status = "ok" /\ ret.value = KeyUncovered))

\* ---------------------------------------------- Compaction::should_stop_before
\* A fresh compaction with its grandparent files (inputs[2]): grandparent_idx 0,
\* seen_key false, overlapped_bytes 0; no key passed yet.
InitStop ==
    /\ InitStore
    /\ mem = {} /\ imm = "none" /\ lastSeq = 0 /\ lres = <<"none">>
    /\ current = NewVersion
    /\ \E gp \in RangeFiles(2) : args = [inputs2 |-> gp, key |-> DefaultKey]
    /\ locals = [pc |-> "idle", grandparent_idx |-> 0, seen_key |-> FALSE,
                 overlapped_bytes |-> 0]
    /\ ret = [status |-> "none", value |-> FALSE]

\* should_stop_before(key) is called with a key after the key of the call before.
StopCall(key) ==
    /\ locals.pc = "idle"
    /\ KeyLess(args.key, key)
    /\ args' = [args EXCEPT !.key = key]
    /\ locals' = [locals EXCEPT !.pc = "while"]
    /\ ret' = [status |-> "none", value |-> FALSE]
    /\ UNCHANGED <<mem, imm, lastSeq, current, lres>>
    /\ UNCHANGED <<engineVars, rlock, poolVars, srvVars>>

\* The test of lines 562-563.
StopLoopTest ==
    /\ locals.grandparent_idx < Len(args.inputs2)
    /\ KeyAfter(args.key, args.inputs2[locals.grandparent_idx + 1])

\* Lines 562-569, one iteration of the loop: the size of the file is added when
\* seen_key is set, the cursor moves on.
StopWhile ==
    /\ locals.pc = "while"
    /\ StopLoopTest
    /\ locals' = [locals EXCEPT
         !.overlapped_bytes =
             IF locals.seen_key
             THEN @ + args.inputs2[locals.grandparent_idx + 1].size ELSE @,
         !.grandparent_idx = @ + 1]
    /\ UNCHANGED <<mem, imm, lastSeq, current, lres, args, ret>>
    /\ UNCHANGED <<engineVars, rlock, poolVars, srvVars>>

\* Lines 570-577.
StopReturn ==
    /\ locals.pc = "while"
    /\ ~StopLoopTest
    /\ locals' = [locals EXCEPT
         !.pc = "idle",
         !.seen_key = TRUE,
         !.overlapped_bytes =
             IF locals.overlapped_bytes > MaxGrandparentOverlapBytes THEN 0 ELSE @]
    /\ ret' = [status |-> "ok",
               value |-> locals.overlapped_bytes > MaxGrandparentOverlapBytes]
    /\ UNCHANGED <<mem, imm, lastSeq, current, lres, args>>
    /\ UNCHANGED <<engineVars, rlock, poolVars, srvVars>>

NextStop ==
    \/ \E key \in IKeys : StopCall(key)
    \/ StopWhile
    \/ StopReturn

SpecStop == InitStop /\ [][NextStop]_vars

\* The cursor moves by one file.
CursorMoves == locals'.grandparent_idx = locals.grandparent_idx + 1

\* The call returns.
StopReturns == locals.pc = "while" /\ locals'.pc = "idle"

\* C34: over an ascending sequence of keys the cursor never moves backwards, the
\* size of every file the cursor passes is added to overlapped_bytes, at the
\* return the cursor has passed the files whose largest key is below the key and
\* no other, and the call returns true exactly when overlapped_bytes exceeds
\* 10 x max_file_size, overlapped_bytes then being reset to 0.
StopAccumulatesEveryFile ==
    [][/\ locals'.grandparent_idx >= locals.grandparent_idx
       /\ CursorMoves =>
             locals'.overlapped_bytes =
                 locals.overlapped_bytes + args.inputs2[locals.grandparent_idx + 1].size
       /\ StopReturns =>
             /\ \A i \in 1..Len(args.inputs2) :
                   KeyLess(args.inputs2[i].largest, args.key) <=> i <= locals.grandparent_idx
             /\ ret'.value = (locals.overlapped_bytes > MaxGrandparentOverlapBytes)
             /\ ret'.value => locals'.overlapped_bytes = 0]_vars

\* C34, amended: the size of a file the cursor passes is added to
\* overlapped_bytes in every call but the first on the compaction, in which the
\* files are passed without being counted; the rest as stated.
StopAccumulatesAfterFirstKey ==
    [][/\ locals'.grandparent_idx >= locals.grandparent_idx
       /\ CursorMoves =>
             locals'.overlapped_bytes =
                 locals.overlapped_bytes
                    + (IF locals.seen_key
                       THEN args.inputs2[locals.grandparent_idx + 1].size ELSE 0)
       /\ StopReturns =>
             /\ \A i \in 1..Len(args.inputs2) :
                   KeyLess(args.inputs2[i].largest, args.key) <=> i <= locals.grandparent_idx
             /\ ret'.value = (locals.overlapped_bytes > MaxGrandparentOverlapBytes)
             /\ ret'.value => locals'.overlapped_bytes = 0]_vars

\* A call after the first has passed two files and returned true, and
\* overlapped_bytes is 0 again.
StopReturnedTrueSeen ==
    /\ ret.status = "ok" /\ ret.value
    /\ locals.grandparent_idx = 2
    /\ locals.overlapped_bytes = 0

\* --------------------------------------------------- InternalKey comparison
Commands == {"Set", "Remove", "Seek"}

\* InternalKey::new: the three fields of the struct.
InternalKey(user_key, sequence_num, command) ==
    [user_key |-> user_key, sequence_num |-> sequence_num, command |-> command]

InternalKeys ==
    {InternalKey(uk, seq, cmd) : uk \in UserKeys, seq \in Seqs, cmd \in Commands}

\* PartialOrd for InternalKey: user_key ascending, then sequence_num descending;
\* the command is not looked at.
PartialCmp(a, b) ==
    IF a.user_key = b.user_key
    THEN IF a.sequence_num > b.sequence_num THEN "Less"
         ELSE IF a.sequence_num < b.sequence_num THEN "Greater"
         ELSE "Equal"
    ELSE IF a.user_key < b.user_key THEN "Less"
    ELSE "Greater"

\* The derived PartialEq: every field is compared.
DerivedEq(a, b) ==
    /\ a.sequence_num = b.sequence_num
    /\ a.user_key = b.user_key
    /\ a.command = b.command

InitCmp ==
    /\ InitStore
    /\ mem = {} /\ imm = "none" /\ lastSeq = 0 /\ lres = <<"none">>
    /\ current = NewVersion
    /\ \E a \in InternalKeys, b \in InternalKeys, c \in InternalKeys :
          args = [a |-> a, b |-> b, c |-> c]
    /\ locals = [pc |-> "start"]
    /\ ret = [status |-> "none", ab |-> "none", ba |-> "none", bc |-> "none",
              ac |-> "none", eq |-> FALSE]

\* The three keys are compared with each other, a and b also with ==.
CmpKeys ==
    /\ locals.pc = "start"
    /\ locals' = [pc |-> "done"]
    /\ ret' = [status |-> "ok",
               ab |-> PartialCmp(args.a, args.b),
               ba |-> PartialCmp(args.b, args.a),
               bc |-> PartialCmp(args.b, args.c),
               ac |-> PartialCmp(args.a, args.c),
               eq |-> DerivedEq(args.a, args.b)]
    /\ UNCHANGED <<mem, imm, lastSeq, current, lres, args>>
    /\ UNCHANGED <<engineVars, rlock, poolVars, srvVars>>

NextCmp == CmpKeys

SpecCmp == InitCmp /\ [][NextCmp]_vars

AtMost(o) == o \in {"Less", "Equal"}

\* C35: the comparison of internal keys is total, antisymmetric and transitive,
\* and orders by user_key ascending, then by sequence_num descending.
InternalKeyTotalOrder ==
    ret.status = "ok" =>
        /\ AtMost(ret.ab) \/ AtMost(ret.ba)
        /\ (AtMost(ret.ab) /\ AtMost(ret.ba)) => ret.eq
        /\ (AtMost(ret.ab) /\ AtMost(ret.bc)) => AtMost(ret.ac)
        /\ ret.ab = "Less" <=>
              \/ args.a.user_key < args.b.user_key
              \/ /\ args.a.user_key = args.b.user_key
                 /\ args.a.sequence_num > args.b.sequence_num

\* ------------------------------------------------------- MemTable::get, seek
\* The entries of a memtable at or after the Seek key of a user key: the same
\* user key, a sequence number not above last_sequence.
AtOrAfterSeek(m, uk) == {x \in m : x.key.uk = uk /\ x.key.seq <= lastSeq}

\* The first of them in key order, the one with the greatest sequence number.
FirstAtOrAfterSeek(m, uk) ==
    CHOOSE x \in AtOrAfterSeek(m, uk) :
        \A y \in AtOrAfterSeek(m, uk) : y.key.seq <= x.key.seq

\* C36: a lookup with the Seek key of the current last sequence answers with
\* the first entry of the memtable at or after that key with the same user key,
\* the newest entry stored for the user key, whatever its sequence number.
MemTableGetSeeksNewest ==
    [][\A uk \in UserKeys :
          (LsmGet(uk) /\ AtOrAfterSeek(mem, uk) # {}) =>
              lres' = Answer({FirstAtOrAfterSeek(mem, uk).vpos})]_vars

\* ------------------------------------------- level tables: frame and lookup
\* serde_json::to_string of an InternalKey, as bytes:
\* {"sequence_num":1,"user_key":"1","command":"Set"}
JsonHead == <<123, 34, 115, 101, 113, 117, 101, 110, 99, 101, 95, 110, 117, 109, 34, 58>>
JsonUserKey == <<44, 34, 117, 115, 101, 114, 95, 107, 101, 121, 34, 58, 34>>
JsonCommand == <<34, 44, 34, 99, 111, 109, 109, 97, 110, 100, 34, 58, 34>>
JsonTail == <<34, 125>>
Digit(n) == <<48 + n>>
CommandName(cmd) ==
    IF cmd = "Set" THEN <<83, 101, 116>>
    ELSE IF cmd = "Remove" THEN <<82, 101, 109, 111, 118, 101>>
    ELSE <<83, 101, 101, 107>>

ToJson(k) ==
    JsonHead \o Digit(k.sequence_num) \o JsonUserKey \o Digit(k.user_key)
        \o JsonCommand \o CommandName(k.command) \o JsonTail

\* to_le_bytes of a 64-bit integer, two's complement; the numbers of the model
\* are in -256 .. 2^24 - 1.
ToLeBytes(n) ==
    [i \in 1..8 |->
        IF n < 0 THEN (IF i = 1 THEN 256 + n ELSE 255)
        ELSE IF i = 1 THEN n % 256
        ELSE IF i = 2 THEN (n \div 256) % 256
        ELSE IF i = 3 THEN (n \div 65536) % 256
        ELSE 0]

\* usize::from_le_bytes; a number with a byte set above the third is beyond
\* every length of the model and stands as 2^24.
UsizeFromLeBytes(bs) ==
    IF \A i \in 4..8 : bs[i] = 0
    THEN bs[1] + 256 * bs[2] + 65536 * bs[3]
    ELSE 256 * 65536

\* i64::from_le_bytes.
I64FromLeBytes(bs) ==
    IF bs[8] >= 128 THEN bs[1] - 256 ELSE UsizeFromLeBytes(bs)

\* buffer[from..to]: the bytes from offset from up to, not including, to.
Slice(buffer, from, to) == SubSeq(buffer, from + 1, to)

\* std::str::from_utf8 succeeds: the bytes of the model are ASCII or 0xFF.
Utf8Valid(bs) == \A i \in 1..Len(bs) : bs[i] < 128

\* serde_json::from_str::<InternalKey>: the key whose JSON text the bytes are;
\* no key when anything else stands in the bytes (a NUL after the object is an
\* error of trailing characters).
FromStr(bs) == {k \in InternalKeys : ToJson(k) = bs}

\* Lines 279-284 of write_level0_table, one entry: alen, the length of the key
\* text plus 16, is written in front of the key text, value_pos and value_len.
WriteFrame(k, v) ==
    LET kstr == ToJson(k)
        alen == Len(kstr) + 8 + 8
    IN ToLeBytes(alen) \o kstr \o ToLeBytes(v[1]) \o ToLeBytes(v[2])

\* An entry in the frame [u64 key_len][key bytes][i64 value_pos][u64 value_len].
KeyLenFrame(k, v) ==
    LET kstr == ToJson(k)
    IN ToLeBytes(Len(kstr)) \o kstr \o ToLeBytes(v[1]) \o ToLeBytes(v[2])

\* The entries of a table: a Set key with a position and a length of its value,
\* a Remove key with the position -1.
TableEntries ==
    {[key |-> InternalKey(uk, seq, "Set"), value |-> v] :
        uk \in UserKeys, seq \in Seqs, v \in {<<0, 1>>, <<1, 2>>}}
      \cup {[key |-> InternalKey(uk, seq, "Remove"), value |-> <<Removed, 0>>] :
        uk \in UserKeys, seq \in Seqs}

\* One or two entries in the order of the memtable.
TableLists ==
    {<<e>> : e \in TableEntries}
      \cup {p \in TableEntries \X TableEntries :
                PartialCmp(p[1].key, p[2].key) = "Less"}

\* The bytes of a table file: the frames of its entries one after the other.
TableFile(entries, frame) ==
    LET F(e) == IF frame = "flush" THEN WriteFrame(e.key, e.value)
                ELSE KeyLenFrame(e.key, e.value)
    IN IF Len(entries) = 1 THEN F(entries[1]) ELSE F(entries[1]) \o F(entries[2])

\* A table file as the loop of the flush writes it, or in the frame with the
\* length of the key in front, and a key to look up in it.
InitTable ==
    /\ InitStore
    /\ mem = {} /\ imm = "none" /\ lastSeq = 0 /\ lres = <<"none">>
    /\ current = NewVersion
    /\ \E entries \in TableLists, frame \in {"flush", "key_len"}, key \in InternalKeys :
          args = [entries |-> entries, frame |-> frame, key |-> key,
                  file |-> TableFile(entries, frame)]
    /\ locals = [pc |-> "start"]
    /\ ret = [status |-> "none", value |-> <<>>]

\* VersionSet::get, lines 234-247: the whole file is read into the buffer.
TableGetBegin ==
    /\ locals.pc = "start"
    /\ locals' = [pc |-> "loop", buffer |-> args.file, pos |-> 0]
    /\ UNCHANGED <<mem, imm, lastSeq, current, lres, args, ret>>
    /\ UNCHANGED <<engineVars, rlock, poolVars, srvVars>>

\* Lines 249-252: the length and the key at pos. A slice beyond the buffer and
\* text that is not UTF-8 panic, text that is not a key returns the error.
TableGetKey ==
    /\ locals.pc = "loop"
    /\ LET buffer == locals.buffer
           pos == locals.pos
           key_len == UsizeFromLeBytes(Slice(buffer, pos, 8 + pos))
           key_buf == Slice(buffer, 8 + pos, 8 + pos + key_len)
       IN IF 8 + pos > Len(buffer)
          THEN /\ ret' = [status |-> "panic", value |-> <<>>]
               /\ locals' = [locals EXCEPT !.pc = "done"]
          ELSE IF 8 + pos + key_len > Len(buffer)
          THEN /\ ret' = [status |-> "panic", value |-> <<>>]
               /\ locals' = [locals EXCEPT !.pc = "done"]
          ELSE IF ~Utf8Valid(key_buf)
          THEN /\ ret' = [status |-> "panic", value |-> <<>>]
               /\ locals' = [locals EXCEPT !.pc = "done"]
          ELSE IF FromStr(key_buf) = {}
          THEN /\ ret' = [status |-> "err", value |-> <<>>]
               /\ locals' = [locals EXCEPT !.pc = "done"]
          ELSE /\ locals' = [pc |-> "compare", buffer |-> buffer, pos |-> pos,
                              key_len |-> key_len,
                              ikey |-> CHOOSE k \in FromStr(key_buf) : TRUE]
               /\ UNCHANGED ret
    /\ UNCHANGED <<mem, imm, lastSeq, current, lres, args>>
    /\ UNCHANGED <<engineVars, rlock, poolVars, srvVars>>

\* Lines 254-270: a key below the key looked up is stepped over, an equal key
\* returns its value, any other key returns none.
TableGetCompare ==
    /\ locals.pc = "compare"
    /\ LET buffer == locals.buffer
           pos == locals.pos
           key_len == locals.key_len
       IN IF PartialCmp(locals.ikey, args.key) = "Less"
          THEN /\ locals' = [pc |-> "loop", buffer |-> buffer,
                              pos |-> pos + (8 + key_len + 8 + 8)]
               /\ UNCHANGED ret
          ELSE IF DerivedEq(locals.ikey, args.key)
          THEN /\ ret' =
                    IF 8 + pos + key_len + 16 > Len(buffer)
                    THEN [status |-> "panic", value |-> <<>>]
                    ELSE [status |-> "ok",
                          value |->
                            <<I64FromLeBytes(Slice(buffer, 8 + pos + key_len,
                                                   8 + pos + key_len + 8)),
                              UsizeFromLeBytes(Slice(buffer, 8 + pos + key_len + 8,
                                                     8 + pos + key_len + 16))>>]
               /\ locals' = [pc |-> "done"]
          ELSE /\ ret' = [status |-> "ok", value |-> <<>>]
               /\ locals' = [pc |-> "done"]
    /\ UNCHANGED <<mem, imm, lastSeq, current, lres, args>>
    /\ UNCHANGED <<engineVars, rlock, poolVars, srvVars>>

NextTable ==
    \/ TableGetBegin
    \/ TableGetKey
    \/ TableGetCompare

SpecTable == InitTable /\ [][NextTable]_vars

\* The values the file holds for the key looked up.
Written == {args.entries[i].value :
               i \in {j \in 1..Len(args.entries) : args.entries[j].key = args.key}}

\* C37: for a table file written by the flush, the lookup of a key of the file
\* returns the value_pos and value_len written with it, and the lookup of a key
\* that is not in the file returns none without reading beyond the file.
TableRoundTrip ==
    (args.frame = "flush" /\ locals.pc = "done") =>
        /\ ret.status = "ok"
        /\ IF Written = {} THEN ret.value = <<>> ELSE ret.value \in Written

\* ------------------------------------------------ KvStore::write_level0_table
\* MemTable::iter is unimplemented!(): the call panics.
MemTableIter(m) == "panic"

\* The last entry of a memtable in the order of its keys.
LastEntry(m) == CHOOSE x \in m : \A y \in m : KeyLeq(y.key, x.key)

\* Non-empty memtables of at most n entries, one entry for a key.
MemTables(n) ==
    {m \in SUBSET MemEntries :
        /\ m # {} /\ Cardinality(m) <= n
        /\ \A x \in m, y \in m : x.key = y.key => x = y}

\* The immutable memtable to be written and whether a base version is passed.
InitFlush ==
    /\ InitStore
    /\ mem = {} /\ imm = "none" /\ lastSeq = 0 /\ lres = <<"none">>
    /\ current = NewVersion
    /\ \E m \in MemTables(2), has_base \in BOOLEAN :
          args = [mem |-> m, has_base |-> has_base]
    /\ locals = [pc |-> "start"]
    /\ ret = [status |-> "none", added |-> <<>>]

\* write_level0_table, lines 249-308. The number of the file comes from
\* new_file_number (line 256) and the entries from mem.iter() (line 267). In the
\* loop `first` is never cleared, so smallest is assigned in every iteration,
\* as largest is: after the loop both hold the last key. The file is added to
\* the edit when bytes are left in the buffer of the writer.
WriteLevel0Table ==
    /\ locals.pc = "start"
    /\ locals' = [pc |-> "done"]
    /\ ret' =
         IF NewFileNumber = "panic" THEN [status |-> "panic", added |-> <<>>]
         ELSE IF MemTableIter(args.mem) = "panic" THEN [status |-> "panic", added |-> <<>>]
         ELSE [status |-> "ok",
               added |-> <<[smallest |-> LastEntry(args.mem).key,
                            largest |-> LastEntry(args.mem).key]>>]
    /\ UNCHANGED <<mem, imm, lastSeq, current, lres, args>>
    /\ UNCHANGED <<engineVars, rlock, poolVars, srvVars>>

NextFlush == WriteLevel0Table

SpecFlush == InitFlush /\ [][NextFlush]_vars

\* C38: for a non-empty memtable write_level0_table adds one file to the edit,
\* with the first key of the memtable as smallest_key and the last key as
\* largest_key, so that every key of the table lies between them.
Level0TableBounds ==
    locals.pc = "done" =>
        /\ ret.status = "ok"
        /\ Len(ret.added) = 1
        /\ \A x \in args.mem :
              /\ KeyLeq(ret.added[1].smallest, x.key)
              /\ KeyLeq(x.key, ret.added[1].largest)
        /\ \E x \in args.mem : x.key = ret.added[1].smallest
        /\ \E x \in args.mem : x.key = ret.added[1].largest

\* ------------------------------------------------- get and last_sequence
\* C39: a get leaves last_sequence as it was, whichever of the memtable, the
\* immutable memtable and the tables answers, and no operation decreases it.
GetKeepsLastSequence ==
    [][/\ lastSeq' >= lastSeq
       /\ \A uk \in UserKeys : LsmGet(uk) => lastSeq' = lastSeq]_vars

\* ------------------------------------------------------ schedule_compaction
\* The threads that run operations of the store.
CompactionThreads == 1..NumWorkers

\* The store with or without an immutable memtable (the Option is a sequence
\* of no or one memtable); no thread is in a call.
InitSched ==
    /\ InitStore
    /\ mem = {} /\ imm = "none" /\ lastSeq \in Seqs /\ lres = <<"none">>
    /\ current = NewVersion
    /\ \E m \in {<<>>} \cup {<<x>> : x \in MemTables(1)} :
          args = [imm |-> m, background_compaction_scheduled |-> FALSE]
    /\ locals = [t \in CompactionThreads |-> "idle"]
    /\ ret = [status |-> "none", value |-> FALSE]

\* A get that reaches line 194: the memtables do not hold the key, last_sequence is set
\* to 0, a table of the current version holds the key and get calls
\* schedule_compaction.
GetFromTable(t) ==
    /\ locals[t] = "idle"
    /\ lastSeq' = 0
    /\ locals' = [locals EXCEPT ![t] = "schedule_compaction"]
    /\ UNCHANGED <<mem, imm, current, lres, args, ret>>
    /\ UNCHANGED <<engineVars, rlock, poolVars, srvVars>>

\* schedule_compaction, lines 340-342: background_compaction is called on the
\* thread of the caller; the flag of the CompactionScheduler is neither read
\* nor written and no lock is taken.
ScheduleCompaction(t) ==
    /\ locals[t] = "schedule_compaction"
    /\ locals' = [locals EXCEPT ![t] = "background_compaction"]
    /\ UNCHANGED <<mem, imm, lastSeq, current, lres, args, ret>>
    /\ UNCHANGED <<engineVars, rlock, poolVars, srvVars>>

\* background_compaction, lines 383-395: with an immutable memtable
\* compact_memtable, whose write_level0_table panics in new_file_number;
\* without one pick_compaction, which panics.
BackgroundCompaction(t) ==
    /\ locals[t] = "background_compaction"
    /\ locals' = [locals EXCEPT ![t] = "panic"]
    /\ lres' = (IF args.imm # <<>> THEN <<NewFileNumber, "compact_memtable">>
                ELSE <<"panic", "pick_compaction">>)
    /\ UNCHANGED <<mem, imm, lastSeq, current, args, ret>>
    /\ UNCHANGED <<engineVars, rlock, poolVars, srvVars>>

NextSched ==
    \/ \E t \in CompactionThreads : GetFromTable(t)
    \/ \E t \in CompactionThreads : ScheduleCompaction(t)
    \/ \E t \in CompactionThreads : BackgroundCompaction(t)

SpecSched == InitSched /\ [][NextSched]_vars

\* The threads inside background_compaction.
Compacting == {t \in CompactionThreads : locals[t] = "background_compaction"}

\* C40: at most one compaction runs at any time: a second thread does not enter
\* background_compaction while a thread is in it.
AtMostOneCompaction == Cardinality(Compacting) <= 1

====
